---- MODULE Spec2Model ----
(***************************************************************************)
(* lite_crawler: the search orchestrator (CrawlerFactory), the per-platform *)
(* sessions (BaseLiteCrawler and its platform subclasses), the result model *)
(* (SearchResult) and the configuration (LiteCrawlerConfig).                *)
(*                                                                         *)
(* Strings that the code inspects character by character (platform names)  *)
(* are sequences of one-character strings. A ContentItem is the raw hit it  *)
(* was mapped from (its native position), its content_id and its comments;  *)
(* a comment is its native position in the platform's comment list.         *)
(***************************************************************************)
EXTENDS Integers, Sequences, FiniteSets, TLC

VARIABLES
    config,     \* the process-wide LiteCrawlerConfig
    pc,         \* position of search_all_platforms
    platforms,  \* the run's platform list, after line 152-155 of factory.py
    idx,        \* index of the platform the for-loop is at (1-based)
    result,     \* the SearchResult under construction
    crawlers,   \* CrawlerFactory._crawlers: canonical name -> session
    attempts,   \* what the outside world did for each platform processed so far
    created,    \* number of session objects constructed so far
    cleanup_all_calls,  \* number of cleanup_all() calls of the run
    other,      \* a second call of search_all_platforms on the same factory
    call,       \* the last direct call of a function and what it returned, or
                \* the search_with_comments call in progress
    disposed    \* the sessions cleanup_crawler took out of the cache, as it left them

vars == <<config, pc, platforms, idx, result, crawlers, attempts,
          created, cleanup_all_calls, other, call, disposed>>

----------------------------------------------------------------------------
(* Bounds of the model *)

\* longest requested platform list
MaxPlatforms == 2
\* most raw hits a platform's keyword search returns
MaxHits == 9
\* most item-level faults (unmappable hit, missing id, failing comment fetch) in
\* the answer to one keyword search
MaxFaults == 1
\* most raw comments a platform returns for one hit (above every comment cap)
MaxRawComments == 101
\* most sessions constructed, and most browser launches and most release
\* requests of one session, under direct calls of the factory and its sessions
MaxCalls == 2
\* most sessions taken out of the cache by direct calls of cleanup_crawler
MaxDisposed == 1
\* most whitespace characters on either side of a platform name
MaxPad == 1
\* most comments of a serialized item, and most items of a platform in a
\* serialized result
MaxNested == 2

----------------------------------------------------------------------------
(* Program constants: PlatformLimits *)

DefaultMaxContents == 8
BilibiliComments == 10
DouyinComments == 10
XiaohongshuComments == 10
WeiboComments == 10
ZhihuComments == 20
TiebaComments == 100
KuaishouComments == 10
DefaultCommentLimit == 10
\* default of LiteCrawlerConfig.crawl_interval (1.5 s), in tenths of a second
CrawlInterval == 15

----------------------------------------------------------------------------
(* Platform names *)

bilibili == <<"b","i","l","i","b","i","l","i">>
douyin == <<"d","o","u","y","i","n">>
xiaohongshu == <<"x","i","a","o","h","o","n","g","s","h","u">>
weibo == <<"w","e","i","b","o">>
zhihu == <<"z","h","i","h","u">>
tieba == <<"t","i","e","b","a">>
kuaishou == <<"k","u","a","i","s","h","o","u">>

\* CrawlerFactory.CRAWLERS: the platforms a session class exists for
CRAWLERS == {bilibili, douyin, xiaohongshu, weibo, zhihu, tieba, kuaishou}

\* default of LiteCrawlerConfig.supported_platforms, in its order
supported_platforms == <<bilibili, douyin, xiaohongshu, weibo, zhihu, tieba, kuaishou>>

\* default of LiteCrawlerConfig.platform_aliases
platform_aliases ==
    [a \in {<<"b","i","l","i">>, <<"d","y">>, <<"x","h","s">>, <<"w","b">>, <<"k","s">>} |->
        CASE a = <<"b","i","l","i">> -> bilibili
          [] a = <<"d","y">> -> douyin
          [] a = <<"x","h","s">> -> xiaohongshu
          [] a = <<"w","b">> -> weibo
          [] a = <<"k","s">> -> kuaishou]

UpperChars == <<"A","B","C","D","E","F","G","H","I","J","K","L","M",
                "N","O","P","Q","R","S","T","U","V","W","X","Y","Z">>
LowerChars == <<"a","b","c","d","e","f","g","h","i","j","k","l","m",
                "n","o","p","q","r","s","t","u","v","w","x","y","z">>
Whitespace == {" ", "\t", "\n", "\r"}

\* str.lower() on one character
LowerChar(c) ==
    IF \E i \in 1..Len(UpperChars) : UpperChars[i] = c
    THEN LowerChars[CHOOSE i \in 1..Len(UpperChars) : UpperChars[i] = c]
    ELSE c

\* a lower() that leaves the string as it is
KeepCase(s) == s

\* str.lower()
Lower(s) == [i \in 1..Len(s) |-> LowerChar(s[i])]

RECURSIVE LStrip(_)
LStrip(s) == IF s # <<>> /\ Head(s) \in Whitespace THEN LStrip(Tail(s)) ELSE s

RECURSIVE RStrip(_)
RStrip(s) ==
    IF s # <<>> /\ s[Len(s)] \in Whitespace THEN RStrip(SubSeq(s, 1, Len(s) - 1)) ELSE s

\* str.strip()
Strip(s) == RStrip(LStrip(s))

\* a normalize_platform that looks the alias up before it lowers and strips
normalize_platform_alias_first(platform) ==
    IF platform \in DOMAIN config.platform_aliases
    THEN config.platform_aliases[platform]
    ELSE Strip(Lower(platform))

\* LiteCrawlerConfig.normalize_platform: platform = platform.lower().strip(),
\* then platform_aliases.get(platform, platform); s is the name given and p the
\* name after lower() and strip(), each bound to its value once
normalize_platform(platform) ==
    CHOOSE r \in {IF p \in DOMAIN config.platform_aliases
                  THEN config.platform_aliases[p] ELSE p :
                      p \in {Strip(Lower(s)) : s \in {platform}}} : TRUE

\* LiteCrawlerConfig.get_comment_limit
get_comment_limit(platform) ==
    LET normalized == normalize_platform(platform)
    IN  CASE normalized = bilibili -> config.limits.bilibili_comments
          [] normalized = douyin -> config.limits.douyin_comments
          [] normalized = xiaohongshu -> config.limits.xiaohongshu_comments
          [] normalized = weibo -> config.limits.weibo_comments
          [] normalized = zhihu -> config.limits.zhihu_comments
          [] normalized = tieba -> config.limits.tieba_comments
          [] normalized = kuaishou -> config.limits.kuaishou_comments
          [] OTHER -> DefaultCommentLimit

\* max_contents that reads a comment limit
max_contents_from_comment_limit == config.limits.bilibili_comments

\* BaseLiteCrawler.max_contents
max_contents == config.limits.max_contents

\* BaseLiteCrawler.max_comments, for the session of platform p (its platform_name)
max_comments(p) == get_comment_limit(p)

\* the dataclass defaults of PlatformLimits and LiteCrawlerConfig
DefaultConfig ==
    [limits |-> [max_contents |-> DefaultMaxContents,
                 bilibili_comments |-> BilibiliComments,
                 douyin_comments |-> DouyinComments,
                 xiaohongshu_comments |-> XiaohongshuComments,
                 weibo_comments |-> WeiboComments,
                 zhihu_comments |-> ZhihuComments,
                 tieba_comments |-> TiebaComments,
                 kuaishou_comments |-> KuaishouComments],
     supported_platforms |-> supported_platforms,
     platform_aliases |-> platform_aliases,
     enable_cdp_mode |-> TRUE,
     headless |-> FALSE,
     login_type |-> "qrcode",
     crawl_interval |-> CrawlInterval]

\* the attributes a LiteCrawlerConfig object has from its class: its methods
ClassAttributes == {"normalize_platform", "is_platform_supported", "get_comment_limit"}

\* hasattr(config, key): the object's own attributes (its fields) and those of
\* its class
hasattr(c, key) == key \in DOMAIN c \/ key \in ClassAttributes

\* config.update_config(**kwargs): setattr on the one global config object for
\* every key hasattr() finds; the other keys are ignored. The object is the
\* record of its own attributes: setattr for a method's name gives the object
\* an attribute of that name, which hides the method
update_config(c, kwargs) ==
    [key \in DOMAIN c \cup {k \in DOMAIN kwargs : hasattr(c, k)} |->
        IF key \in DOMAIN kwargs THEN kwargs[key] ELSE c[key]]

----------------------------------------------------------------------------
(* Python list slicing *)

\* s[-n:], the other end of the list
TakeLast(s, n) ==
    IF n > 0
    THEN SubSeq(s, IF n < Len(s) THEN Len(s) - n + 1 ELSE 1, Len(s))
    ELSE s

\* s[:n + 1], one element too many
TakeOneMore(s, n) == SubSeq(s, 1, IF n + 1 < Len(s) THEN n + 1 ELSE Len(s))

\* s[:n]
Take(s, n) ==
    IF n >= 0
    THEN SubSeq(s, 1, IF n < Len(s) THEN n ELSE Len(s))
    ELSE SubSeq(s, 1, IF Len(s) + n > 0 THEN Len(s) + n ELSE 0)

----------------------------------------------------------------------------
(* The outside world of one search_with_comments call: what the platform's   *)
(* client answers. fails: the keyword search call raises. hits: the raw hits  *)
(* in native order; a hit is mappable unless building its ContentItem raises  *)
(* (malformed hit, failing detail fetch), has_id unless its identifier is     *)
(* missing or empty, and its comment fetch either raises (comments_fail) or   *)
(* returns ncomments raw comments.                                            *)

FaultKinds == {"unmappable", "noid", "comments_fail"}

\* raw hit counts of a run over several platforms: none, one, exactly the
\* default cap, more than the cap
HitCounts == {0, 1, DefaultMaxContents, MaxHits}

\* raw comment counts of a hit: none, more than every cap
CommentCounts == {0, MaxRawComments}

\* the sets of at most k elements of S
RECURSIVE SubsetsUpTo(_, _)
SubsetsUpTo(S, k) ==
    IF k = 0 THEN {{}}
    ELSE LET smaller == SubsetsUpTo(S, k - 1)
         IN  smaller \cup {F \cup {x} : F \in smaller, x \in S}

\* the faults of n raw hits: at most MaxFaults (position, kind) pairs
FaultSets(n) == SubsetsUpTo((1..n) \X FaultKinds, MaxFaults)

RawHits(n, m, F) ==
    [i \in 1..n |->
        [id |-> i,
         mappable |-> <<i, "unmappable">> \notin F,
         has_id |-> <<i, "noid">> \notin F,
         ncomments |-> m,
         comments_fail |-> <<i, "comments_fail">> \in F]]

NoWorld == [fails |-> FALSE, hits |-> <<>>]

FailingWorld == [fails |-> TRUE, hits |-> <<>>]

\* the answers drawn in runs over several platforms: the search raises, or
\* returns fault-free hits that each carry MaxRawComments comments
PlainWorlds ==
    {FailingWorld}
    \cup {[fails |-> FALSE, hits |-> RawHits(n, MaxRawComments, {})] : n \in HitCounts}

\* the answers drawn in runs over one platform: any number of hits up to
\* MaxHits, with up to MaxFaults faults among them
FaultyWorlds ==
    {FailingWorld}
    \cup UNION {{[fails |-> FALSE, hits |-> RawHits(n, m, F)] :
                    m \in CommentCounts, F \in FaultSets(n)} : n \in 0..MaxHits}

\* the raw comment list of a hit, in native order
RawComments(h) == [i \in 1..h.ncomments |-> i]

----------------------------------------------------------------------------
(* Platform sessions: search *)

\* ContentItem(platform=..., extra={"content_id": ...}); comments defaults to []
\* content_id 0 is the empty (falsy) identifier
ContentItem(p, h, cid) ==
    [platform |-> p, hit |-> h.id, content_id |-> cid, comments |-> <<>>]

\* for video in video_list[:self.max_contents]: try: ... append / except: continue
\* content_id is str(aid): non-empty also when the raw hit carries no aid
RECURSIVE BilibiliMap(_)
BilibiliMap(hits) ==
    IF hits = <<>> THEN <<>>
    ELSE LET h == Head(hits)
         IN  IF h.mappable
             THEN <<ContentItem(bilibili, h, IF h.has_id THEN h.id ELSE -1)>>
                      \o BilibiliMap(Tail(hits))
             ELSE BilibiliMap(Tail(hits))

\* a loop that a hit it cannot map ends ("break" for "continue")
RECURSIVE CountLoopBreaking(_, _, _, _)
CountLoopBreaking(p, hits, contents, skip_noid) ==
    IF hits = <<>> \/ Len(contents) >= max_contents THEN contents
    ELSE LET h == Head(hits)
         IN  IF ~h.mappable \/ (skip_noid /\ ~h.has_id) THEN contents
             ELSE CountLoopBreaking(p, Tail(hits),
                                    Append(contents, ContentItem(p, h, IF h.has_id THEN h.id ELSE 0)),
                                    skip_noid)

\* count = 0; for item in list: if count >= max_contents: break; try: ... append,
\* count += 1 / except: continue.  skip_noid: "if not <id>: continue"
RECURSIVE CountLoop(_, _, _, _)
CountLoop(p, hits, contents, skip_noid) ==
    IF hits = <<>> \/ Len(contents) >= max_contents THEN contents
    ELSE LET h == Head(hits)
         IN  IF ~h.mappable \/ (skip_noid /\ ~h.has_id)
             THEN CountLoop(p, Tail(hits), contents, skip_noid)
             ELSE CountLoop(p, Tail(hits),
                            Append(contents, ContentItem(p, h, IF h.has_id THEN h.id ELSE 0)),
                            skip_noid)

Returned(contents) == [raised |-> FALSE, value |-> contents]
\* raise: an exception is its class and its message (str(e))
Raised(class, message) ==
    [raised |-> TRUE, value |-> [class |-> class, message |-> message]]

\* BilibiliLiteCrawler.search
BilibiliSearch(world) ==
    IF world.fails THEN Returned(<<>>)
    ELSE Returned(BilibiliMap(Take(world.hits, max_contents)))

\* DouyinLiteCrawler.search
DouyinSearch(world) ==
    IF world.fails THEN Returned(<<>>)
    ELSE Returned(CountLoop(douyin, world.hits, <<>>, TRUE))

\* XiaohongshuLiteCrawler.search
XiaohongshuSearch(world) ==
    IF world.fails THEN Returned(<<>>)
    ELSE Returned(CountLoop(xiaohongshu, world.hits, <<>>, TRUE))

\* ZhihuLiteCrawler.search
ZhihuSearch(world) ==
    IF world.fails THEN Returned(<<>>)
    ELSE Returned(CountLoop(zhihu, world.hits, <<>>, FALSE))

\* TiebaLiteCrawler.search
TiebaSearch(world) ==
    IF world.fails THEN Returned(<<>>)
    ELSE Returned(CountLoop(tieba, world.hits, <<>>, TRUE))

\* WeiboLiteCrawler.search and KuaishouLiteCrawler.search (crawlers/weibo.py and
\* crawlers/kuaishou.py are imported by factory.py): a failing keyword search is
\* a thrown SearchFailure, an unmappable hit is skipped, at most max_contents
\* items are mapped
SessionSearch(p, world) ==
    IF world.fails THEN Raised("Exception", "search failed")
    ELSE Returned(CountLoop(p, world.hits, <<>>, FALSE))

\* crawler.search(keyword), dispatched on the session's class
search(p, world) ==
    CASE p = bilibili -> BilibiliSearch(world)
      [] p = douyin -> DouyinSearch(world)
      [] p = xiaohongshu -> XiaohongshuSearch(world)
      [] p = zhihu -> ZhihuSearch(world)
      [] p = tieba -> TiebaSearch(world)
      [] OTHER -> SessionSearch(p, world)

----------------------------------------------------------------------------
(* Platform sessions: comments *)

\* get_comments of the five sessions under src/: every exception is caught
\* inside and the list built so far (empty) is returned; the raw list is cut
\* to self.max_comments
CrawlerGetComments(p, h) ==
    IF h.comments_fail THEN Returned(<<>>)
    ELSE Returned(Take(RawComments(h), max_comments(p)))

\* get_comments of the weibo and kuaishou sessions: a failing fetch raises
SessionGetComments(p, h) ==
    IF h.comments_fail THEN Raised("Exception", "comment fetch failed")
    ELSE Returned(RawComments(h))

\* crawler.get_comments(content_id, **extra_kwargs)
get_comments(p, h) ==
    IF p \in {bilibili, douyin, xiaohongshu, zhihu, tieba}
    THEN CrawlerGetComments(p, h)
    ELSE SessionGetComments(p, h)

\* a loop body without "if content_id": the comments are fetched for every item
EnrichContentWithoutId(p, content, world) ==
    LET got == get_comments(p, world.hits[content.hit])
    IN  IF got.raised THEN content
        ELSE [content EXCEPT !.comments = Take(got.value, max_comments(p))]

\* the body of the for-loop of search_with_comments for one content
EnrichContent(p, content, world) ==
    IF content.content_id # 0
    THEN LET got == get_comments(p, world.hits[content.hit])
         IN  IF got.raised THEN content
             ELSE [content EXCEPT !.comments = Take(got.value, max_comments(p))]
    ELSE content

\* a search_with_comments without the try around get_comments: what
\* get_comments raises leaves the function
search_with_comments_unguarded(p, world) ==
    LET found == search(p, world)
    IN  IF found.raised THEN found
        ELSE LET contents == Take(found.value, max_contents)
             IN  IF \E i \in 1..Len(contents) :
                        /\ contents[i].content_id # 0
                        /\ get_comments(p, world.hits[contents[i].hit]).raised
                 THEN Raised("Exception", "comment fetch failed")
                 ELSE Returned([i \in 1..Len(contents) |-> EnrichContent(p, contents[i], world)])

\* BaseLiteCrawler.search_with_comments
search_with_comments(p, world) ==
    LET found == search(p, world)
    IN  IF found.raised THEN found
        ELSE LET contents == Take(found.value, max_contents)
             IN  Returned([i \in 1..Len(contents) |-> EnrichContent(p, contents[i], world)])

----------------------------------------------------------------------------
(* Platform sessions: the externally-bound calls of one search_with_comments  *)
(* and the asyncio.sleep(crawl_interval) calls between them, in the order the   *)
(* code makes them: "search" the keyword search, "detail" the detail fetch of  *)
(* one hit, "comments" the comment fetch of one item, "sleep" the delay.        *)

\* the searches that skip a hit without identifier before anything else
skips_noid(p) == p \in {douyin, xiaohongshu, tieba}

\* the searches that fetch the detail of each hit (get_video_info,
\* get_note_by_id); xiaohongshu calls get_note_by_id_from_html in addition
\* when get_note_by_id raises
fetches_detail(p) == p \in {bilibili, xiaohongshu, tieba}

\* the loop over the raw hits of search(): the detail fetch of a hit, then,
\* when the item was appended, the sleep; "continue" skips the sleep
RECURSIVE LoopCalls(_, _, _)
LoopCalls(p, hits, count) ==
    IF hits = <<>> \/ count >= max_contents THEN <<>>
    ELSE LET h == Head(hits)
             detail == IF fetches_detail(p) THEN <<"detail">> ELSE <<>>
         IN  IF skips_noid(p) /\ ~h.has_id THEN LoopCalls(p, Tail(hits), count)
             ELSE IF ~h.mappable THEN detail \o LoopCalls(p, Tail(hits), count)
             ELSE detail \o <<"sleep">> \o LoopCalls(p, Tail(hits), count + 1)

\* the raw hits the search of p goes through: bilibili cuts the raw list to
\* max_contents before it maps, the other searches count the mapped items
Considered(p, hits) == IF p = bilibili THEN Take(hits, max_contents) ELSE hits

\* search(): the keyword search, then the loop over its hits
SearchCalls(p, world) ==
    <<"search">> \o
        (IF world.fails THEN <<>>
         ELSE LoopCalls(p, IF p = bilibili THEN Take(world.hits, max_contents) ELSE world.hits, 0))

\* the for-loop of search_with_comments: get_comments for an item with a
\* content_id, then the sleep, which an exception of get_comments skips
RECURSIVE CommentCalls(_, _, _)
CommentCalls(p, contents, world) ==
    IF contents = <<>> THEN <<>>
    ELSE LET content == Head(contents)
             this == IF content.content_id = 0 THEN <<"sleep">>
                     ELSE IF get_comments(p, world.hits[content.hit]).raised
                          THEN <<"comments">>
                          ELSE <<"comments", "sleep">>
         IN  this \o CommentCalls(p, Tail(contents), world)

\* BaseLiteCrawler.search_with_comments: what it calls, in order
search_with_comments_calls(p, world) ==
    LET found == search(p, world)
    IN  IF found.raised THEN <<"search">>
        ELSE SearchCalls(p, world) \o CommentCalls(p, Take(found.value, max_contents), world)

----------------------------------------------------------------------------
(* SearchResult *)

EmptyMap == [k \in {} |-> k]

\* d[k] = v on a dict
Put(d, k, v) == [x \in DOMAIN d \cup {k} |-> IF x = k THEN v ELSE d[x]]

\* SearchResult(keyword=keyword)
SearchResult(keyword) ==
    [keyword |-> keyword, results |-> EmptyMap, status |-> "success", errors |-> EmptyMap]

\* SearchResult.add_result
add_result(r, platform, items) ==
    [r EXCEPT !.results = Put(r.results, platform, items)]

\* add_error that forgets the status
add_error_keeps_status(r, platform, error) ==
    [r EXCEPT !.errors = Put(r.errors, platform, error)]

\* SearchResult.add_error
add_error(r, platform, error) ==
    [r EXCEPT !.errors = Put(r.errors, platform, error),
              !.status = IF r.status = "success" THEN "partial" ELSE r.status]

\* lines 182-183 of factory.py: if not result.results and result.errors
final_status(r) ==
    IF r.results = EmptyMap /\ r.errors # EmptyMap THEN "failed" ELSE r.status

----------------------------------------------------------------------------
(* Sessions held by the factory *)

\* BaseLiteCrawler.__init__
\* instance: which object it is (0 until the factory has numbered it).
\* closed, releases: whether cleanup() ran since the last initialize(), and how
\* many times cleanup() asked for the browser to be released.
\* release_raised: whether a release cleanup() asked for raised.
\* clients, login_checks: how many times initialize() called _init_client() and
\* _check_login().
NewCrawler ==
    [is_initialized |-> FALSE, cdp_manager |-> FALSE, browser_context |-> FALSE, held |-> 0,
     instance |-> 0, closed |-> FALSE, releases |-> 0, release_raised |-> FALSE,
     clients |-> 0, login_checks |-> 0]

\* the outcomes of the external calls of one initialize()
InitOutcomes == {"ok", "launch_fails", "login_fails"}

\* the body of initialize() after its first test: the browser is launched, the
\* client constructed, the login checked (and done); "launch_fails": the launch
\* raises, "login_fails": the login raises
launch_and_login(c, outcome) ==
    CASE outcome = "launch_fails" ->
            [c EXCEPT !.cdp_manager = config.enable_cdp_mode,
                      !.closed = FALSE]
      [] outcome = "login_fails" ->
            [c EXCEPT !.cdp_manager = config.enable_cdp_mode,
                      !.browser_context = TRUE,
                      !.held = c.held + 1,
                      !.clients = c.clients + 1,
                      !.login_checks = c.login_checks + 1,
                      !.closed = FALSE]
      [] OTHER ->
            [c EXCEPT !.cdp_manager = config.enable_cdp_mode,
                      !.browser_context = TRUE,
                      !.held = c.held + 1,
                      !.clients = c.clients + 1,
                      !.login_checks = c.login_checks + 1,
                      !.is_initialized = TRUE,
                      !.closed = FALSE]

\* an initialize() without "if self._is_initialized: return True"
initialize_again(c, outcome) == launch_and_login(c, outcome)

\* BaseLiteCrawler.initialize (and the overrides of zhihu and tieba): the session
\* after the call. held counts the browsers launched and not released.
initialize(c, outcome) ==
    IF c.is_initialized THEN c ELSE launch_and_login(c, outcome)

\* an initialize() that reports success whatever happened
initialize_returns_true(c, outcome) == TRUE

\* what initialize() returns
initialize_returns(c, outcome) == c.is_initialized \/ outcome = "ok"

\* a handler for ValueError only
except_ValueError(e) == e.class = "ValueError"

\* except Exception as e: whether the handler of the for-loop catches e
\* (CancelledError, KeyboardInterrupt and SystemExit derive from BaseException only)
except_Exception(e) == e.class \notin {"CancelledError", "KeyboardInterrupt", "SystemExit"}

\* the release of the browser by cleanup(): it returns or raises
ReleaseOutcomes == {"ok", "raises"}

\* cdp_manager.cleanup() or browser_context.close(): it returns, or raises an
\* error of the browser (an Exception)
release(outcome) ==
    IF outcome = "raises" THEN Raised("Error", "Target closed") ELSE Returned(<<>>)

\* what cleanup() gives its caller: None, or the exception of the release when
\* "except Exception" does not catch it
cleanup_returns(c, outcome) ==
    LET asked == c.cdp_manager \/ c.browser_context
        released == release(outcome)
    IN  IF asked /\ released.raised /\ ~except_Exception(released.value)
        THEN released
        ELSE Returned(<<>>)

\* a cleanup() that resets the flag after the release, outside any finally
cleanup_without_finally(c, outcome) ==
    LET asked == c.cdp_manager \/ c.browser_context
    IN  [c EXCEPT !.releases = IF asked THEN c.releases + 1 ELSE c.releases,
                  !.held = IF asked /\ outcome = "ok" /\ c.held > 0 THEN c.held - 1 ELSE c.held,
                  !.release_raised = c.release_raised \/ (asked /\ outcome = "raises"),
                  !.is_initialized = c.is_initialized /\ asked /\ outcome = "raises",
                  !.closed = TRUE]

\* BaseLiteCrawler.cleanup: the session after the call. The release is asked
\* for whenever cdp_manager or browser_context is set (neither is reset); what
\* it raises is caught; finally the session is not initialized.
cleanup(c, outcome) ==
    LET asked == c.cdp_manager \/ c.browser_context
    IN  [c EXCEPT !.releases = IF asked THEN c.releases + 1 ELSE c.releases,
                  !.held = IF asked /\ outcome = "ok" /\ c.held > 0 THEN c.held - 1 ELSE c.held,
                  !.release_raised = c.release_raised \/ (asked /\ outcome = "raises"),
                  !.is_initialized = FALSE,
                  !.closed = TRUE]

\* CrawlerFactory.cleanup_crawler: the cache after the call; the session is
\* deleted in the finally clause, whatever its cleanup() did
cleanup_crawler(cache, name) ==
    LET p == normalize_platform(name)
    IN  [k \in DOMAIN cache \ {p} |-> cache[k]]

\* the sessions cleanup() is called on by cleanup_all, as cleanup() leaves
\* them; outcomes: what the release of each session's browser does
cleaned_up(cache, outcomes) == {cleanup(cache[p], outcomes[p]) : p \in DOMAIN cache}

\* a cleanup_all that gives up at a session whose release raises: that session
\* stays cached
cleanup_all_until_raise(cache, outcomes) ==
    [k \in {p \in DOMAIN cache : outcomes[p] = "raises"} |-> cache[k]]

\* CrawlerFactory.cleanup_all: the cache after the call. cleanup_crawler runs
\* for every key of list(self._crawlers.keys()), then the dict is cleared.
cleanup_all(cache, outcomes) == EmptyMap

\* a cache key that keeps the name as it was given
cache_key_raw(name) == name

\* line 69 of factory.py: the key get_crawler looks the session up under
cache_key(name) == normalize_platform(name)

\* CrawlerFactory.get_crawler: the cache after the call (the call returns
\* cache[cache_key(name)], or None for a name outside CRAWLERS); a session
\* constructed by the call is numbered serial
get_crawler(cache, name, serial) ==
    LET k == cache_key(name)
    IN  IF k \notin CRAWLERS \/ k \in DOMAIN cache THEN cache
        ELSE Put(cache, k, [NewCrawler EXCEPT !.instance = serial])

\* a test that takes every list
always_true(contents) == TRUE

\* line 166 of factory.py: "if contents"
truthy(contents) == contents # <<>>

----------------------------------------------------------------------------
(* Requests *)

foo == <<"f","o","o">>

\* the platform names a request is made of: canonical names, an alias in
\* mixed case with surrounding blanks, an alias, an unsupported name
NameInputs == {bilibili, <<" ","B","i","l","i"," ">>, zhihu, tieba, <<"w","b">>, foo}

Keywords == {"python"}

RECURSIVE SeqsUpTo(_, _)
SeqsUpTo(S, n) ==
    IF n = 0 THEN {<<>>}
    ELSE LET shorter == SeqsUpTo(S, n - 1)
         IN  shorter \cup {Append(q, x) : q \in shorter, x \in S}

\* requests of up to MaxPlatforms names; platforms=None is drawn only when the
\* default list fits the bound
Requests ==
    {[given |-> TRUE, list |-> q] : q \in SeqsUpTo(NameInputs, MaxPlatforms)}
    \cup (IF Len(supported_platforms) <= MaxPlatforms
          THEN {[given |-> FALSE, list |-> <<>>]} ELSE {})

\* requests of one name
SingleRequests == {[given |-> TRUE, list |-> <<x>>] : x \in NameInputs}

----------------------------------------------------------------------------
(* CrawlerFactory.search_all_platforms *)

\* no second call of search_all_platforms
NoOther == [pc |-> "absent", platforms |-> <<>>, idx |-> 0]

\* no direct call yet
NoCall == [op |-> "none", arg |-> <<>>, ret |-> <<>>]

Init ==
    /\ config = DefaultConfig
    /\ pc = "idle"
    /\ platforms = <<>>
    /\ idx = 0
    /\ result = SearchResult("")
    /\ crawlers = EmptyMap
    /\ attempts = <<>>
    /\ created = 0
    /\ cleanup_all_calls = 0
    /\ other = NoOther
    /\ call = NoCall
    /\ disposed = {}

\* a loop that goes through the list from its end
platform_from_the_end == normalize_platform(platforms[Len(platforms) + 1 - idx])

\* the platform of the current iteration, as search_platform normalizes it
platform == normalize_platform(platforms[idx])

\* what one iteration did: the platform, how it ended, what the platform's
\* client answered, and the crawl_interval its sleeps read from the config
Attempt(kind, world) ==
    [platform |-> platform, kind |-> kind, world |-> world,
     crawl_interval |-> config.crawl_interval]

\* a handler that ends the loop
break_after_error(i) == Len(platforms) + 1

\* the index the for-loop goes on with after the except handler of iteration i
after_error(i) == i + 1

\* a list taken as it was given
as_given(list) == list

\* line 155: [self.config.normalize_platform(p) for p in platforms]
normalized(list) == [i \in 1..Len(list) |-> normalize_platform(list[i])]

\* lines 146-158: the result is created and the platform list resolved
SearchAllPlatforms(requests) ==
    /\ pc = "idle"
    /\ \E keyword \in Keywords, request \in requests :
        /\ result' = SearchResult(keyword)
        /\ platforms' = IF ~request.given THEN config.supported_platforms
                        ELSE normalized(request.list)
    /\ idx' = 1
    /\ pc' = "loop"
    /\ UNCHANGED <<config, crawlers, attempts, created, cleanup_all_calls, other, call,
                   disposed>>

\* one iteration for a platform outside CRAWLERS: get_crawler returns None,
\* initialize_crawler False, search_platform [], and the loop logs "no results"
SearchPlatformUnsupported ==
    /\ pc = "loop"
    /\ idx <= Len(platforms)
    /\ platform \notin CRAWLERS
    /\ attempts' = Append(attempts, Attempt("unsupported", NoWorld))
    /\ idx' = idx + 1
    /\ UNCHANGED <<config, pc, platforms, result, crawlers, created, cleanup_all_calls, other, call,
                   disposed>>

\* one iteration up to the end of initialize_crawler: get_crawler creates or
\* finds the session and initialize() runs; when it returns False
\* search_platform returns [] and the loop logs "no results"
InitializeCrawler ==
    /\ pc = "loop"
    /\ idx <= Len(platforms)
    /\ platform \in CRAWLERS
    /\ LET cached == get_crawler(crawlers, platform, created + 1)
       IN  \E outcome \in (IF cached[platform].is_initialized THEN {"ok"} ELSE InitOutcomes) :
            /\ crawlers' = Put(cached, platform, initialize(cached[platform], outcome))
            /\ IF initialize_returns(cached[platform], outcome)
               THEN /\ pc' = "search"
                    /\ UNCHANGED <<idx, attempts>>
               ELSE /\ attempts' = Append(attempts, Attempt("init_failed", NoWorld))
                    /\ idx' = idx + 1
                    /\ UNCHANGED pc
    /\ created' = IF platform \in DOMAIN crawlers THEN created ELSE created + 1
    /\ UNCHANGED <<config, platforms, result, cleanup_all_calls, other, call,
                   disposed>>

\* the rest of the iteration: search_with_comments on the session, then
\* add_result for a non-empty list, nothing for an empty one, add_error in the
\* except handler, both under the loop variable (the name as the list holds it); an exception the handler does not catch leaves the function
SearchWithComments(worlds) ==
    /\ pc = "search"
    /\ \E world \in worlds :
        LET contents == search_with_comments(platform, world)
        IN  IF ~contents.raised
               THEN /\ result' = IF truthy(contents.value)
                                 THEN add_result(result, platforms[idx], contents.value)
                                 ELSE result
                    /\ attempts' = Append(attempts, Attempt("returned", world))
                    /\ idx' = idx + 1
                    /\ pc' = "loop"
               ELSE IF except_Exception(contents.value)
               THEN /\ result' = add_error(result, platforms[idx], contents.value.message)
                    /\ attempts' = Append(attempts, Attempt("raised", world))
                    /\ idx' = after_error(idx)
                    /\ pc' = "loop"
               ELSE /\ pc' = "raised"
                    /\ attempts' = Append(attempts, Attempt("raised", world))
                    /\ UNCHANGED <<result, idx>>
    /\ UNCHANGED <<config, platforms, crawlers, created, cleanup_all_calls, other, call,
                   disposed>>

\* a loop left after its first iteration
loop_is_left_early(i, list) == i > 1

\* the for-loop of lines 160-175 has gone through the whole list
loop_is_over(i, list) == i > Len(list)

\* line 178, after the loop: cleanup_all() runs cleanup() on every cached
\* session and empties the cache; releases: what the release of a session's
\* browser may do
CleanupAll(releases) ==
    /\ pc = "loop"
    /\ loop_is_over(idx, platforms)
    /\ \E outcomes \in [DOMAIN crawlers -> releases] :
        /\ crawlers' = cleanup_all(crawlers, outcomes)
        /\ disposed' = disposed \cup cleaned_up(crawlers, outcomes)
    /\ cleanup_all_calls' = cleanup_all_calls + 1
    /\ pc' = "finalize"
    /\ UNCHANGED <<config, platforms, idx, result, attempts, created, other, call>>

\* lines 180-185: the status is derived and the result returned
Return ==
    /\ pc = "finalize"
    /\ result' = [result EXCEPT !.status = final_status(result)]
    /\ pc' = "returned"
    /\ UNCHANGED <<config, platforms, idx, crawlers, attempts,
                   created, cleanup_all_calls, other, call, disposed>>

\* runs over up to MaxPlatforms platforms, fault-free answers, releases that
\* return
Next ==
    \/ SearchAllPlatforms(Requests)
    \/ SearchPlatformUnsupported
    \/ InitializeCrawler
    \/ SearchWithComments(PlainWorlds)
    \/ CleanupAll({"ok"})
    \/ Return

Spec == Init /\ [][Next]_vars

\* runs over one platform, answers with faulty hits
NextItems ==
    \/ SearchAllPlatforms(SingleRequests)
    \/ SearchPlatformUnsupported
    \/ InitializeCrawler
    \/ SearchWithComments(FaultyWorlds)
    \/ CleanupAll(ReleaseOutcomes)
    \/ Return

SpecItems == Init /\ [][NextItems]_vars

----------------------------------------------------------------------------
(* Runs over the default platform list and over lists in a given order *)

\* platforms=None, and lists that name platforms in an order other than the
\* default one, an alias and an unsupported name among them
OrderRequests ==
    {[given |-> FALSE, list |-> <<>>],
     [given |-> TRUE, list |-> <<tieba, bilibili>>],
     [given |-> TRUE, list |-> <<<<"w","b">>, foo, <<" ","B","i","l","i"," ">>>>]}

\* the answers drawn in these runs: the search raises, or returns one hit
\* without comments
OrderWorlds == {FailingWorld, [fails |-> FALSE, hits |-> RawHits(1, 0, {})]}

NextOrder ==
    \/ SearchAllPlatforms(OrderRequests)
    \/ SearchPlatformUnsupported
    \/ InitializeCrawler
    \/ SearchWithComments(OrderWorlds)
    \/ CleanupAll({"ok"})
    \/ Return

SpecOrder == Init /\ [][NextOrder]_vars

----------------------------------------------------------------------------
(* Configuration updates while a run is in flight. The factory and every      *)
(* session hold the object get_config() returns (self.config = config or       *)
(* get_config()), which update_config changes in place; POST /api/config is     *)
(* served while api_search is suspended in an await.                            *)

\* the keyword arguments of the updates: a crawl interval (POST /api/config),
\* a PlatformLimits with smaller caps, a key the config does not have
ConfigUpdates ==
    {[crawl_interval |-> 0],
     [limits |-> [DefaultConfig.limits EXCEPT !.max_contents = 3,
                                              !.bilibili_comments = 2,
                                              !.tieba_comments = 5]],
     [no_such_key |-> 1]}

\* update_config(**kwargs) while the run is suspended in the await of
\* search_with_comments
UpdateConfig ==
    /\ pc = "search"
    /\ config = DefaultConfig
    /\ \E kwargs \in ConfigUpdates : config' = update_config(config, kwargs)
    /\ UNCHANGED <<pc, platforms, idx, result, crawlers, attempts,
                   created, cleanup_all_calls, other, call, disposed>>

\* a run over one platform, and configuration updates during it
NextConfig ==
    \/ SearchAllPlatforms(SingleRequests)
    \/ SearchPlatformUnsupported
    \/ InitializeCrawler
    \/ UpdateConfig
    \/ SearchWithComments(PlainWorlds)
    \/ CleanupAll({"ok"})
    \/ Return

SpecConfig == Init /\ [][NextConfig]_vars

----------------------------------------------------------------------------
(* Runs whose cleanup_all meets releases that raise *)

\* two platforms, one platform twice, an alias, an unsupported name first
ReleaseRequests ==
    {[given |-> TRUE, list |-> <<tieba, bilibili>>],
     [given |-> TRUE, list |-> <<tieba, tieba>>],
     [given |-> TRUE, list |-> <<<<" ","B","i","l","i"," ">>>>],
     [given |-> TRUE, list |-> <<foo, zhihu>>]}

NextRelease ==
    \/ SearchAllPlatforms(ReleaseRequests)
    \/ SearchPlatformUnsupported
    \/ InitializeCrawler
    \/ SearchWithComments(OrderWorlds)
    \/ CleanupAll(ReleaseOutcomes)
    \/ Return

SpecRelease == Init /\ [][NextRelease]_vars

----------------------------------------------------------------------------
(* search_with_comments step by step: one step for the keyword search, one    *)
(* for each raw hit the loop of search() goes through, one for each item of    *)
(* the loop of search_with_comments. Every step ends when the external call    *)
(* it awaits (client call, sleep) returns or raises.                           *)

\* the search_with_comments call in progress: the client's answer, the loop
\* it is in ("map": search(), "enrich": search_with_comments), the position
\* of the loop and the contents list so far
Frame(world, stage, i, contents) ==
    [op |-> "search_with_comments", arg |-> world,
     ret |-> [stage |-> stage, i |-> i, contents |-> contents]]

\* one iteration of the loop of search() on raw hit h
map_hit(p, h, contents) ==
    IF p = bilibili THEN contents \o BilibiliMap(<<h>>)
    ELSE CountLoop(p, <<h>>, contents, skips_noid(p))

\* the platform lists of the runs followed step by step: sessions under src/,
\* an alias of a session that is not, an unsupported name before a supported
\* one, two platforms
StepRequests ==
    {[given |-> TRUE, list |-> <<bilibili>>],
     [given |-> TRUE, list |-> <<xiaohongshu>>],
     [given |-> TRUE, list |-> <<<<"w","b">>>>],
     [given |-> TRUE, list |-> <<foo, zhihu>>],
     [given |-> TRUE, list |-> <<tieba, douyin>>]}

\* the faults of a list of n hits: none, or one of a kind at the first or at
\* the second hit
StepFaults(n) == {{}} \cup {{<<i, k>>} : i \in {j \in 1..2 : j <= n}, k \in FaultKinds}

\* the answers drawn step by step. In a run over one platform: the search
\* raises, or returns no hit, one hit or MaxHits hits, at most one of them
\* faulty, without comments or with more than every cap. In a run over
\* several platforms: the search raises or returns one hit.
StepWorlds ==
    IF Len(platforms) = 1
    THEN {FailingWorld}
         \cup UNION {{[fails |-> FALSE, hits |-> RawHits(n, m, F)] :
                         m \in CommentCounts, F \in StepFaults(n)} : n \in {0, 1, MaxHits}}
    ELSE OrderWorlds

\* the keyword search of search(): it returns the raw hits, or raises; what a
\* session does with the exception is its search()'s business (the sessions
\* under src/ return [], the others let it out to the handler of the for-loop)
KeywordSearch ==
    /\ pc = "search"
    /\ call = NoCall
    /\ \E world \in StepWorlds :
        IF ~world.fails
        THEN /\ call' = Frame(world, "map", 1, <<>>)
             /\ UNCHANGED <<pc, idx, result, attempts>>
        ELSE LET found == search(platform, world)
             IN  IF ~found.raised
                 THEN /\ call' = Frame(world, "enrich", 1, Take(found.value, max_contents))
                      /\ UNCHANGED <<pc, idx, result, attempts>>
                 ELSE /\ result' = add_error(result, platforms[idx], found.value.message)
                      /\ attempts' = Append(attempts, Attempt("raised", world))
                      /\ idx' = after_error(idx)
                      /\ pc' = "loop"
                      /\ UNCHANGED call
    /\ UNCHANGED <<config, platforms, crawlers, created, cleanup_all_calls, other, disposed>>

\* one iteration of the for-loop of search(): the next raw hit is mapped (its
\* detail fetched) and appended, or skipped
MapHit ==
    /\ pc = "search"
    /\ call.op = "search_with_comments"
    /\ call.ret.stage = "map"
    /\ LET raw == Considered(platform, call.arg.hits)
           i == call.ret.i
           contents == call.ret.contents
       IN  /\ i <= Len(raw)
           /\ platform = bilibili \/ Len(contents) < max_contents
           /\ call' = Frame(call.arg, "map", i + 1, map_hit(platform, raw[i], contents))
    /\ UNCHANGED <<config, pc, platforms, idx, result, crawlers, attempts,
                   created, cleanup_all_calls, other, disposed>>

\* the for-loop of search() ends (list exhausted, or "break" at the cap),
\* search() returns and search_with_comments cuts the list (line 193)
SearchReturns ==
    /\ pc = "search"
    /\ call.op = "search_with_comments"
    /\ call.ret.stage = "map"
    /\ LET raw == Considered(platform, call.arg.hits)
           contents == call.ret.contents
       IN  /\ call.ret.i > Len(raw) \/ (platform # bilibili /\ Len(contents) >= max_contents)
           /\ call' = Frame(call.arg, "enrich", 1, Take(contents, max_contents))
    /\ UNCHANGED <<config, pc, platforms, idx, result, crawlers, attempts,
                   created, cleanup_all_calls, other, disposed>>

\* a loop that stays at an item until the item has comments
until_commented(i, content) == IF content.comments = <<>> THEN i ELSE i + 1

\* "for content in contents": the position the loop goes on with after the
\* iteration for item i, whatever the iteration did
after_item(i, content) == i + 1

\* one iteration of the for-loop of search_with_comments (lines 196-210)
EnrichItem ==
    /\ pc = "search"
    /\ call.op = "search_with_comments"
    /\ call.ret.stage = "enrich"
    /\ LET i == call.ret.i
           contents == call.ret.contents
       IN  /\ i <= Len(contents)
           /\ LET content == EnrichContent(platform, contents[i], call.arg)
               IN  call' = Frame(call.arg, "enrich", after_item(i, content),
                                 [contents EXCEPT ![i] = content])
    /\ UNCHANGED <<config, pc, platforms, idx, result, crawlers, attempts,
                   created, cleanup_all_calls, other, disposed>>

\* search_with_comments returns the contents (line 212) and the for-loop of
\* search_all_platforms records them (lines 166-170)
ReturnContents ==
    /\ pc = "search"
    /\ call.op = "search_with_comments"
    /\ call.ret.stage = "enrich"
    /\ call.ret.i > Len(call.ret.contents)
    /\ result' = IF truthy(call.ret.contents)
                 THEN add_result(result, platforms[idx], call.ret.contents)
                 ELSE result
    /\ attempts' = Append(attempts, Attempt("returned", call.arg))
    /\ idx' = idx + 1
    /\ pc' = "loop"
    /\ call' = NoCall
    /\ UNCHANGED <<config, platforms, crawlers, created, cleanup_all_calls, other, disposed>>

\* the steps of a run that has started
RunSteps ==
    \/ SearchPlatformUnsupported
    \/ InitializeCrawler
    \/ KeywordSearch
    \/ MapHit
    \/ SearchReturns
    \/ EnrichItem
    \/ ReturnContents
    \/ CleanupAll({"ok"})
    \/ Return

\* the run is the only task of the event loop and every call it awaits
\* returns or raises: a run that can take a step takes one
Progress == WF_vars(RunSteps)

NextSteps ==
    \/ SearchAllPlatforms(StepRequests)
    \/ RunSteps

SpecSteps == Init /\ [][NextSteps]_vars /\ Progress

----------------------------------------------------------------------------
(* Cancellation *)

\* what a cancelled await raises (asyncio.CancelledError)
CancelledError == [class |-> "CancelledError", message |-> ""]

\* the run's task is cancelled (or its overall timeout expires) while
\* search_with_comments is suspended in an external call: the await raises
\* CancelledError, which no "except Exception" of the session or of the
\* for-loop catches, and the exception leaves search_all_platforms at line 164
Cancel ==
    /\ pc = "search"
    /\ ~except_Exception(CancelledError)
    /\ pc' = "raised"
    /\ attempts' = Append(attempts, Attempt("cancelled", NoWorld))
    /\ UNCHANGED <<config, platforms, idx, result, crawlers,
                   created, cleanup_all_calls, other, call, disposed>>

\* runs over up to MaxPlatforms platforms that may be cancelled
NextCancel ==
    \/ SearchAllPlatforms(Requests)
    \/ SearchPlatformUnsupported
    \/ InitializeCrawler
    \/ SearchWithComments(PlainWorlds)
    \/ Cancel
    \/ CleanupAll(ReleaseOutcomes)
    \/ Return

SpecCancel == Init /\ [][NextCancel]_vars

----------------------------------------------------------------------------
(* Direct calls of the factory and of the sessions it hands out *)

\* the names given to the factory: a canonical name, an alias of it in mixed
\* case with surrounding blanks, another canonical name, an unsupported name
SessionNames == {bilibili, <<" ","B","i","l","i"," ">>, tieba, foo}

\* the names initialize_crawler is given: the spellings of one platform (the
\* sessions of the other platform stay as get_crawler constructed them)
OpenedNames == {bilibili, <<" ","B","i","l","i"," ">>}

\* None, as the value a call returns
None == <<>>

\* factory.get_crawler(name): the session is found or constructed and returned
GetCrawler(name) ==
    /\ pc = "idle"
    /\ LET k == cache_key(name)
           cached == get_crawler(crawlers, name, created + 1)
       IN  /\ (k \in CRAWLERS /\ k \notin DOMAIN crawlers) => created < MaxCalls
           /\ crawlers' = cached
           /\ created' = IF cached = crawlers THEN created ELSE created + 1
           /\ call' = [op |-> "get_crawler", arg |-> name,
                       ret |-> IF k \in DOMAIN cached THEN <<cached[k].instance>> ELSE None]
    /\ UNCHANGED <<config, pc, platforms, idx, result, attempts, cleanup_all_calls, other,
                   disposed>>

\* factory.initialize_crawler(name, playwright): get_crawler, then initialize()
\* on the session
InitializeCrawlerCall(name) ==
    /\ pc = "idle"
    /\ LET k == cache_key(name)
           cached == get_crawler(crawlers, name, created + 1)
       IN  /\ k \in CRAWLERS
           /\ k \notin DOMAIN crawlers => created < MaxCalls
           /\ cached[k].held < MaxCalls
           /\ \E outcome \in (IF cached[k].is_initialized THEN {"ok"} ELSE InitOutcomes) :
                /\ crawlers' = Put(cached, k, initialize(cached[k], outcome))
                /\ call' = [op |-> "initialize_crawler", arg |-> name,
                            ret |-> <<initialize_returns(cached[k], outcome)>>]
           /\ created' = IF cached = crawlers THEN created ELSE created + 1
    /\ UNCHANGED <<config, pc, platforms, idx, result, attempts, cleanup_all_calls, other,
                   disposed>>

\* crawler.cleanup() on the session get_crawler handed out for platform p
Cleanup(p) ==
    /\ pc = "idle"
    /\ p \in DOMAIN crawlers
    /\ crawlers[p].releases < MaxCalls
    /\ \E outcome \in ReleaseOutcomes :
        /\ crawlers' = Put(crawlers, p, cleanup(crawlers[p], outcome))
        /\ call' = [op |-> "cleanup", arg |-> p, ret |-> cleanup_returns(crawlers[p], outcome)]
    /\ UNCHANGED <<config, pc, platforms, idx, result, attempts,
                   created, cleanup_all_calls, other, disposed>>

\* factory.cleanup_crawler(name): cleanup() on the cached session, whatever it
\* raises is caught, and the session leaves the cache
CleanupCrawler(name) ==
    /\ pc = "idle"
    /\ LET p == normalize_platform(name)
       IN  /\ p \in DOMAIN crawlers
           /\ Cardinality(disposed) < MaxDisposed
           /\ crawlers' = cleanup_crawler(crawlers, name)
           /\ \E outcome \in ReleaseOutcomes :
                disposed' = disposed \cup {cleanup(crawlers[p], outcome)}
    /\ call' = [op |-> "cleanup_crawler", arg |-> name, ret |-> None]
    /\ UNCHANGED <<config, pc, platforms, idx, result, attempts,
                   created, cleanup_all_calls, other>>

NextSessions ==
    \/ \E name \in SessionNames : GetCrawler(name)
    \/ \E name \in OpenedNames : InitializeCrawlerCall(name)
    \/ \E p \in CRAWLERS : Cleanup(p)
    \/ \E name \in SessionNames : CleanupCrawler(name)

SpecSessions == Init /\ [][NextSessions]_vars

\* direct calls of the factory only: the sessions are reached through the
\* factory and never cleaned up behind its back
NextCache ==
    \/ \E name \in SessionNames : GetCrawler(name)
    \/ \E name \in OpenedNames : InitializeCrawlerCall(name)
    \/ \E name \in SessionNames : CleanupCrawler(name)

SpecCache == Init /\ [][NextCache]_vars

----------------------------------------------------------------------------
(* Two overlapping calls of search_all_platforms. api_search awaits search(),   *)
(* which runs search_all_platforms on the one factory get_factory() returns;    *)
(* while one request is suspended in an await the server starts the next one.   *)
(* The second call is followed through the steps that touch the shared cache:   *)
(* the sessions it gets and initializes, the session it searches with, and its  *)
(* cleanup_all.                                                                 *)

\* the platform lists of the second call
OtherRequests == {<<bilibili>>, <<tieba>>, <<<<" ","B","i","l","i"," ">>, tieba>>}

\* the platform of the second call's current iteration
other_platform == other.platforms[other.idx]

\* lines 149-158 in the second call
OtherSearchAllPlatforms ==
    /\ other.pc = "absent"
    /\ \E list \in OtherRequests :
        other' = [pc |-> "loop",
                  platforms |-> [i \in 1..Len(list) |-> normalize_platform(list[i])],
                  idx |-> 1]
    /\ UNCHANGED <<config, pc, platforms, idx, result, crawlers, attempts,
                   created, cleanup_all_calls, call, disposed>>

\* the second call's iteration up to the end of initialize_crawler: the session
\* is the cached one when the cache has one, and an initialized session is
\* taken as it is
OtherInitializeCrawler ==
    /\ other.pc = "loop"
    /\ other.idx <= Len(other.platforms)
    /\ other_platform \in CRAWLERS
    /\ LET cached == get_crawler(crawlers, other_platform, created + 1)
       IN  \E outcome \in (IF cached[other_platform].is_initialized
                           THEN {"ok"} ELSE InitOutcomes) :
            /\ crawlers' = Put(cached, other_platform,
                               initialize(cached[other_platform], outcome))
            /\ other' = IF initialize_returns(cached[other_platform], outcome)
                        THEN [other EXCEPT !.pc = "search"]
                        ELSE [other EXCEPT !.idx = other.idx + 1]
    /\ created' = IF other_platform \in DOMAIN crawlers THEN created ELSE created + 1
    /\ UNCHANGED <<config, pc, platforms, idx, result, attempts, cleanup_all_calls, call,
                   disposed>>

\* the second call's search_with_comments comes back (with a list or an
\* exception the handler catches) and its loop goes on
OtherSearchWithComments ==
    /\ other.pc = "search"
    /\ other' = [other EXCEPT !.pc = "loop", !.idx = other.idx + 1]
    /\ UNCHANGED <<config, pc, platforms, idx, result, crawlers, attempts,
                   created, cleanup_all_calls, call, disposed>>

\* line 178 in the second call: every cached session is cleaned up and the
\* cache emptied
OtherCleanupAll ==
    /\ other.pc = "loop"
    /\ other.idx > Len(other.platforms)
    /\ \E outcomes \in [DOMAIN crawlers -> ReleaseOutcomes] :
        /\ crawlers' = cleanup_all(crawlers, outcomes)
        /\ disposed' = disposed \cup cleaned_up(crawlers, outcomes)
    /\ other' = [other EXCEPT !.pc = "returned"]
    /\ UNCHANGED <<config, pc, platforms, idx, result, attempts,
                   created, cleanup_all_calls, call>>

\* a run over one platform and a second call that overlaps it
NextOverlap ==
    \/ SearchAllPlatforms(SingleRequests)
    \/ SearchPlatformUnsupported
    \/ InitializeCrawler
    \/ SearchWithComments(PlainWorlds)
    \/ CleanupAll(ReleaseOutcomes)
    \/ Return
    \/ OtherSearchAllPlatforms
    \/ OtherInitializeCrawler
    \/ OtherSearchWithComments
    \/ OtherCleanupAll

SpecOverlap == Init /\ [][NextOverlap]_vars

----------------------------------------------------------------------------
(* Platform names as callers spell them, and normalize_platform applied to    *)
(* them once and twice                                                         *)

\* the upper-case form of one character
UpperChar(c) ==
    IF \E i \in 1..Len(LowerChars) : LowerChars[i] = c
    THEN UpperChars[CHOOSE i \in 1..Len(LowerChars) : LowerChars[i] = c]
    ELSE c

Upper(s) == [i \in 1..Len(s) |-> UpperChar(s[i])]

\* every way of writing some letters of s in upper case
RECURSIVE CaseVariants(_)
CaseVariants(s) ==
    IF s = <<>> THEN {<<>>}
    ELSE {<<c>> \o t : c \in {Head(s), UpperChar(Head(s))}, t \in CaseVariants(Tail(s))}

\* the whitespace characters put around a name: blank, tab, newline
PadChars == {" ", "\t", "\n"}

\* up to MaxPad whitespace characters
Pads == SeqsUpTo(PadChars, MaxPad)

\* the names of S with whitespace around them
Padded(S) == {l \o x \o r : l \in Pads, x \in S, r \in Pads}

\* the spellings of a name: any letter case, any surrounding whitespace
Spellings(name) == Padded(CaseVariants(name))

\* the strings normalize_platform is given: every spelling of every alias,
\* the canonical names in lower and upper case, and strings that are neither
NameStrings ==
    UNION {Spellings(a) : a \in DOMAIN platform_aliases}
    \cup Padded(CRAWLERS \cup {Upper(c) : c \in CRAWLERS})
    \cup Padded({<<>>, foo, <<"w"," ","b">>, <<"W","e","i","B","o","2">>})

InitNames ==
    /\ config = DefaultConfig
    /\ pc = "idle"
    /\ platforms = <<>>
    /\ idx = 0
    /\ result = SearchResult("")
    /\ crawlers = EmptyMap
    /\ attempts = <<>>
    /\ created = 0
    /\ cleanup_all_calls = 0
    /\ other = NoOther
    /\ disposed = {}
    /\ call \in {[op |-> "input", arg |-> x, ret |-> None] : x \in NameStrings}

\* config.normalize_platform(x)
NormalizePlatform ==
    /\ call.op = "input"
    /\ call' = [op |-> "normalize_platform", arg |-> call.arg,
                ret |-> normalize_platform(call.arg)]
    /\ UNCHANGED <<config, pc, platforms, idx, result, crawlers, attempts,
                   created, cleanup_all_calls, other, disposed>>

\* config.normalize_platform applied to what the first call returned
NormalizePlatformAgain ==
    /\ call.op = "normalize_platform"
    /\ call' = [op |-> "normalize_platform_again", arg |-> call.arg,
                ret |-> normalize_platform(call.ret)]
    /\ UNCHANGED <<config, pc, platforms, idx, result, crawlers, attempts,
                   created, cleanup_all_calls, other, disposed>>

NextNames ==
    \/ NormalizePlatform
    \/ NormalizePlatformAgain

SpecNames == InitNames /\ [][NextNames]_vars

----------------------------------------------------------------------------
(* update_config applied to keyword arguments *)

\* the keys of the keyword arguments: fields of the config, a field of
\* PlatformLimits (not one of the config), names the config does not have,
\* the name of a method
UpdateKeys ==
    {"crawl_interval", "headless", "login_type", "enable_cdp_mode", "limits",
     "max_contents", "no_such_key", "normalize_platform"}

\* the value given for a key, in two variants
UpdateValue(key, variant) ==
    CASE key = "crawl_interval" -> IF variant = 1 THEN 0 ELSE 30
      [] key = "headless" -> variant = 1
      [] key = "login_type" -> IF variant = 1 THEN "cookie" ELSE "phone"
      [] key = "enable_cdp_mode" -> variant # 1
      [] key = "limits" -> [DefaultConfig.limits EXCEPT !.max_contents = 2 + variant]
      [] key = "max_contents" -> 2 + variant
      [] key = "no_such_key" -> variant
      [] key = "normalize_platform" -> IF variant = 1 THEN "x" ELSE "y"

\* the keyword arguments update_config is called with: any of the keys
UpdateInputs ==
    {[key \in D |-> UpdateValue(key, variant)] : D \in SUBSET UpdateKeys, variant \in 1..2}

InitUpdate ==
    /\ config = DefaultConfig
    /\ pc = "idle"
    /\ platforms = <<>>
    /\ idx = 0
    /\ result = SearchResult("")
    /\ crawlers = EmptyMap
    /\ attempts = <<>>
    /\ created = 0
    /\ cleanup_all_calls = 0
    /\ other = NoOther
    /\ disposed = {}
    /\ call \in {[op |-> "input", arg |-> x, ret |-> None] : x \in UpdateInputs}

\* update_config(**kwargs); it returns the config object
UpdateConfigCall ==
    /\ call.op = "input"
    /\ config' = update_config(config, call.arg)
    /\ call' = [op |-> "update_config", arg |-> call.arg, ret |-> update_config(config, call.arg)]
    /\ UNCHANGED <<pc, platforms, idx, result, crawlers, attempts,
                   created, cleanup_all_calls, other, disposed>>

NextUpdate == UpdateConfigCall

SpecUpdate == InitUpdate /\ [][NextUpdate]_vars

----------------------------------------------------------------------------
(* BaseLiteCrawler.format_count. A value is tagged with its Python type; a     *)
(* string is the sequence of its characters; a float is its sign and the        *)
(* fraction num/den of its magnitude, or an infinity or a NaN.                  *)

\* the characters U+4E07 (ten thousand) and U+4EBF (hundred million)
WAN == "U+4E07"
YI == "U+4EBF"

Digits == <<"0", "1", "2", "3", "4", "5", "6", "7", "8", "9">>

IsDigit(c) == \E d \in 1..Len(Digits) : Digits[d] = c

DigitValue(c) == (CHOOSE d \in 1..Len(Digits) : Digits[d] = c) - 1

\* the number a sequence of digits writes
RECURSIVE DigitsValue(_)
DigitsValue(ds) ==
    IF ds = <<>> THEN 0
    ELSE 10 * DigitsValue(SubSeq(ds, 1, Len(ds) - 1)) + DigitValue(ds[Len(ds)])

RECURSIVE Pow10(_)
Pow10(n) == IF n = 0 THEN 1 ELSE 10 * Pow10(n - 1)

\* c in s
Contains(s, c) == \E i \in 1..Len(s) : s[i] = c

\* s.replace(c, "")
RECURSIVE Remove(_, _)
Remove(s, c) ==
    IF s = <<>> THEN <<>>
    ELSE (IF Head(s) = c THEN <<>> ELSE <<Head(s)>>) \o Remove(Tail(s), c)

NoneValue == [type |-> "NoneType"]
IntValue(n) == [type |-> "int", int |-> n]
StrValue(s) == [type |-> "str", str |-> s]
Finite(neg, num, den) == [type |-> "float", kind |-> "finite", neg |-> neg, num |-> num, den |-> den]
Infinity(neg) == [type |-> "float", kind |-> "inf", neg |-> neg, num |-> 0, den |-> 1]
NaN == [type |-> "float", kind |-> "nan", neg |-> FALSE, num |-> 0, den |-> 1]

\* float(s) for a string without exponent and without underscores: blanks
\* around it are dropped, then an optional sign and either "inf", "infinity",
\* "nan" or digits with at most one point and at least one digit; anything
\* else is a ValueError
float(s) ==
    LET t == Strip(s)
        signed == t # <<>> /\ Head(t) \in {"-", "+"}
        neg == t # <<>> /\ Head(t) = "-"
        body == IF signed THEN Tail(t) ELSE t
        points == {i \in 1..Len(body) : body[i] = "."}
        point == IF points = {} THEN Len(body) + 1 ELSE CHOOSE i \in points : TRUE
        whole == SubSeq(body, 1, point - 1)
        frac == SubSeq(body, point + 1, Len(body))
    IN  IF Lower(body) \in {<<"i","n","f">>, <<"i","n","f","i","n","i","t","y">>}
        THEN Returned(Infinity(neg))
        ELSE IF Lower(body) = <<"n","a","n">> THEN Returned(NaN)
        ELSE IF /\ Cardinality(points) <= 1
                /\ Len(whole) + Len(frac) > 0
                /\ \A i \in 1..Len(whole) : IsDigit(whole[i])
                /\ \A i \in 1..Len(frac) : IsDigit(frac[i])
        THEN Returned(Finite(neg, DigitsValue(whole \o frac), Pow10(Len(frac))))
        ELSE Raised("ValueError", "could not convert string to float")

\* f * multiplier, multiplier a positive integer
times(f, multiplier) == [f EXCEPT !.num = f.num * multiplier]

\* int(f): the float is cut towards zero; an infinity is an OverflowError and a
\* NaN a ValueError
int(f) ==
    CASE f.kind = "inf" -> Raised("OverflowError", "cannot convert float infinity to integer")
      [] f.kind = "nan" -> Raised("ValueError", "cannot convert float NaN to integer")
      [] OTHER -> Returned(IF f.neg THEN 0 - (f.num \div f.den) ELSE f.num \div f.den)

\* BaseLiteCrawler.format_count. "except ValueError" is around int(float(...))
\* of a string only.
format_count(count) ==
    CASE count.type = "NoneType" -> Returned(0)
      [] count.type = "int" -> Returned(count.int)
      [] count.type = "float" -> int(count)
      [] count.type = "str" ->
            LET stripped == Strip(count.str)
                lowered == Remove(Lower(stripped), ",")
                ten_thousands == Contains(lowered, WAN) \/ Contains(lowered, "w")
                hundred_millions == ~ten_thousands /\ Contains(lowered, YI)
                multiplier == IF ten_thousands THEN 10000
                              ELSE IF hundred_millions THEN 100000000 ELSE 1
                number == IF ten_thousands THEN Remove(Remove(lowered, WAN), "w")
                          ELSE IF hundred_millions THEN Remove(lowered, YI) ELSE lowered
                parsed == float(number)
                value == int(times(parsed.value, multiplier))
            IN  IF stripped = <<>> THEN Returned(0)
                ELSE IF parsed.raised THEN Returned(0)
                ELSE IF value.raised /\ except_ValueError(value.value) THEN Returned(0)
                ELSE value
      [] OTHER -> Returned(0)

\* the numbers written in the strings: plain, with thousands separators, with
\* one fractional digit, without whole part, with a sign
CountNumbers ==
    {<<"0">>, <<"7">>, <<"1","2">>, <<"1",",","2","3","4">>, <<"1",".","2">>,
     <<"0",".","5">>, <<".","5">>, <<"3",".">>, <<"-","5">>, <<"+","5">>}

\* the suffixes: none, ten thousand (the character, "w", "W"), hundred million
CountSuffixes == {<<>>, <<WAN>>, <<"w">>, <<"W">>, <<YI>>}

\* the counts written: a number and a suffix. A Python integer has no width;
\* the counts written here stay below 2^31.
CountStrings ==
    {n \o u : n \in CountNumbers, u \in CountSuffixes} \ {<<"1",",","2","3","4",YI>>}

\* the strings that write no count
CountJunk ==
    {<<>>, <<" ">>, <<"a","b","c">>, <<"1",WAN,YI>>, <<"1",".","2",".","3">>, <<"-">>,
     <<WAN>>, <<"n","a","n">>, <<"i","n","f">>, <<"I","n","f","i","n","i","t","y">>,
     <<"1","2","+">>}

\* the values format_count is given
CountInputs ==
    {NoneValue, [type |-> "list"]}
    \cup {IntValue(n) : n \in {-1, 0, 1, 12000}}
    \cup {Finite(FALSE, 25, 10), Finite(TRUE, 25, 10), Finite(FALSE, 0, 1), Infinity(FALSE), NaN}
    \cup {StrValue(x) : x \in Padded(CountStrings)}
    \cup {StrValue(x) : x \in CountJunk}

InitCounts ==
    /\ config = DefaultConfig
    /\ pc = "idle"
    /\ platforms = <<>>
    /\ idx = 0
    /\ result = SearchResult("")
    /\ crawlers = EmptyMap
    /\ attempts = <<>>
    /\ created = 0
    /\ cleanup_all_calls = 0
    /\ other = NoOther
    /\ disposed = {}
    /\ call \in {[op |-> "input", arg |-> x, ret |-> None] : x \in CountInputs}

\* BaseLiteCrawler.format_count(x)
FormatCount ==
    /\ call.op = "input"
    /\ call' = [op |-> "format_count", arg |-> call.arg, ret |-> format_count(call.arg)]
    /\ UNCHANGED <<config, pc, platforms, idx, result, crawlers, attempts,
                   created, cleanup_all_calls, other, disposed>>

NextCounts == FormatCount

SpecCounts == InitCounts /\ [][NextCounts]_vars

----------------------------------------------------------------------------
(* Serialization: to_dict and from_dict of CommentItem, ContentItem and        *)
(* SearchResult. An object is the record of its dataclass fields, a dict the   *)
(* record (or function) of its keys; a float is the integer with its value.    *)

\* dict.get(key, default)
Get(d, key, default) == IF key \in DOMAIN d THEN d[key] ELSE default

\* CommentItem.to_dict
CommentItem_to_dict(c) ==
    [content |-> c.content, like_count |-> c.like_count,
     create_time |-> c.create_time, is_reply |-> c.is_reply]

\* CommentItem.from_dict
CommentItem_from_dict(data) ==
    [content |-> Get(data, "content", ""),
     like_count |-> Get(data, "like_count", 0),
     create_time |-> Get(data, "create_time", ""),
     is_reply |-> Get(data, "is_reply", FALSE)]

\* ContentItem.to_dict
ContentItem_to_dict(item) ==
    [platform |-> item.platform,
     content_type |-> item.content_type,
     title |-> item.title,
     content |-> item.content,
     url |-> item.url,
     publish_time |-> item.publish_time,
     like_count |-> item.like_count,
     comment_count |-> item.comment_count,
     share_count |-> item.share_count,
     view_count |-> item.view_count,
     comments |-> [i \in 1..Len(item.comments) |-> CommentItem_to_dict(item.comments[i])],
     extra |-> item.extra]

\* a from_dict that reads like_count from the key of comment_count
ContentItem_from_dict_wrong_key(data) ==
    LET cs == Get(data, "comments", <<>>)
    IN  [platform |-> Get(data, "platform", ""),
         content_type |-> Get(data, "content_type", ""),
         title |-> Get(data, "title", ""),
         content |-> Get(data, "content", ""),
         url |-> Get(data, "url", ""),
         publish_time |-> Get(data, "publish_time", ""),
         like_count |-> Get(data, "comment_count", 0),
         comment_count |-> Get(data, "comment_count", 0),
         share_count |-> Get(data, "share_count", 0),
         view_count |-> Get(data, "view_count", 0),
         comments |-> [i \in 1..Len(cs) |-> CommentItem_from_dict(cs[i])],
         extra |-> Get(data, "extra", EmptyMap)]

\* ContentItem.from_dict
ContentItem_from_dict(data) ==
    LET cs == Get(data, "comments", <<>>)
    IN  [platform |-> Get(data, "platform", ""),
         content_type |-> Get(data, "content_type", ""),
         title |-> Get(data, "title", ""),
         content |-> Get(data, "content", ""),
         url |-> Get(data, "url", ""),
         publish_time |-> Get(data, "publish_time", ""),
         like_count |-> Get(data, "like_count", 0),
         comment_count |-> Get(data, "comment_count", 0),
         share_count |-> Get(data, "share_count", 0),
         view_count |-> Get(data, "view_count", 0),
         comments |-> [i \in 1..Len(cs) |-> CommentItem_from_dict(cs[i])],
         extra |-> Get(data, "extra", EmptyMap)]

\* sum(len(items) for items in results.values())
RECURSIVE SumLens(_)
SumLens(d) ==
    IF DOMAIN d = {} THEN 0
    ELSE LET k == CHOOSE x \in DOMAIN d : TRUE
         IN  Len(d[k]) + SumLens([x \in DOMAIN d \ {k} |-> d[x]])

\* SearchResult.get_total_count
get_total_count(r) == SumLens(r.results)

\* SearchResult.to_dict
SearchResult_to_dict(r) ==
    [keyword |-> r.keyword,
     search_time |-> r.search_time,
     status |-> r.status,
     duration |-> r.duration,
     total_count |-> get_total_count(r),
     results |-> [p \in DOMAIN r.results |->
                    [i \in 1..Len(r.results[p]) |-> ContentItem_to_dict(r.results[p][i])]],
     errors |-> r.errors]

\* SearchResult.from_dict
SearchResult_from_dict(data) ==
    LET given == Get(data, "results", EmptyMap)
        results == [p \in DOMAIN given |->
                       [i \in 1..Len(given[p]) |-> ContentItem_from_dict(given[p][i])]]
    IN  [keyword |-> Get(data, "keyword", ""),
         search_time |-> Get(data, "search_time", ""),
         status |-> Get(data, "status", "success"),
         duration |-> Get(data, "duration", 0),
         results |-> results,
         errors |-> Get(data, "errors", EmptyMap)]

\* comments: all defaults, every field set, a reply without a time
CommentItems ==
    {[content |-> "", like_count |-> 0, create_time |-> "", is_reply |-> FALSE],
     [content |-> "nice", like_count |-> 3, create_time |-> "2024-05-01T10:00:00",
      is_reply |-> FALSE],
     [content |-> "me too", like_count |-> 1, create_time |-> "", is_reply |-> TRUE]}

\* extra bags: empty, a content_id, several keys, a nested value
Extras ==
    {EmptyMap,
     [content_id |-> "1"],
     [content_id |-> "BV1", aid |-> 17, tags |-> <<"a", "b">>],
     [content_id |-> "", author |-> [name |-> "n", level |-> 6]]}

\* the fields of an item other than comments and extra, at their defaults
PlainItem ==
    [platform |-> "bilibili", content_type |-> "video", title |-> "",
     content |-> "", url |-> "", publish_time |-> "",
     like_count |-> 0, comment_count |-> 0, share_count |-> 0, view_count |-> 0]

\* PlainItem, PlainItem with one field off its default, and an item with every
\* field set
ItemFields ==
    {PlainItem,
     [PlainItem EXCEPT !.platform = "zhihu", !.content_type = "answer"],
     [PlainItem EXCEPT !.title = "t"],
     [PlainItem EXCEPT !.content = "body"],
     [PlainItem EXCEPT !.url = "https://example.com/1"],
     [PlainItem EXCEPT !.publish_time = "2024-05-01"],
     [PlainItem EXCEPT !.like_count = 5],
     [PlainItem EXCEPT !.comment_count = 6],
     [PlainItem EXCEPT !.share_count = 7],
     [PlainItem EXCEPT !.view_count = 8],
     [platform |-> "tieba", content_type |-> "post", title |-> "t",
      content |-> "body", url |-> "https://example.com/2", publish_time |-> "2024-05-02",
      like_count |-> 1, comment_count |-> 2, share_count |-> 3, view_count |-> 4]}

\* an item of fields f with comments cs and extra bag e
WithNested(f, cs, e) ==
    [platform |-> f.platform, content_type |-> f.content_type, title |-> f.title,
     content |-> f.content, url |-> f.url, publish_time |-> f.publish_time,
     like_count |-> f.like_count, comment_count |-> f.comment_count,
     share_count |-> f.share_count, view_count |-> f.view_count,
     comments |-> cs, extra |-> e]

\* the well-formed items: up to MaxNested comments, any of the extra bags
ContentItems ==
    {WithNested(f, cs, e) :
        f \in ItemFields, cs \in SeqsUpTo(CommentItems, MaxNested), e \in Extras}

\* the items that results of a SearchResult are made of
ResultItems ==
    {WithNested(PlainItem, <<>>, EmptyMap),
     WithNested([PlainItem EXCEPT !.title = "t", !.like_count = 5],
                <<[content |-> "nice", like_count |-> 3,
                   create_time |-> "2024-05-01T10:00:00", is_reply |-> FALSE]>>,
                [content_id |-> "1"])}

\* the maps from some of the keys of K to values of V
MapsInto(K, V) == UNION {[D -> V] : D \in SUBSET K}

\* the SearchResults: any status, with and without results and errors
SearchResults ==
    [keyword : {"python"},
     search_time : {"", "2024-05-01T10:00:00"},
     status : {"success", "partial", "failed"},
     duration : {0, 12},
     results : MapsInto({bilibili, zhihu}, SeqsUpTo(ResultItems, MaxNested)),
     errors : MapsInto({weibo}, {"search failed"})]

InitRoundTrip ==
    /\ config = DefaultConfig
    /\ pc = "idle"
    /\ platforms = <<>>
    /\ idx = 0
    /\ result = SearchResult("")
    /\ crawlers = EmptyMap
    /\ attempts = <<>>
    /\ created = 0
    /\ cleanup_all_calls = 0
    /\ other = NoOther
    /\ disposed = {}
    /\ call \in {[op |-> "ContentItem", arg |-> x, ret |-> None] : x \in ContentItems}
                \cup {[op |-> "SearchResult", arg |-> x, ret |-> None] : x \in SearchResults}

\* item.to_dict()
ContentItemToDict ==
    /\ call.op = "ContentItem"
    /\ call' = [op |-> "ContentItem.to_dict", arg |-> call.arg,
                ret |-> ContentItem_to_dict(call.arg)]
    /\ UNCHANGED <<config, pc, platforms, idx, result, crawlers, attempts,
                   created, cleanup_all_calls, other, disposed>>

\* ContentItem.from_dict(item.to_dict())
ContentItemFromDict ==
    /\ call.op = "ContentItem.to_dict"
    /\ call' = [op |-> "ContentItem.from_dict", arg |-> call.arg,
                ret |-> ContentItem_from_dict(call.ret)]
    /\ UNCHANGED <<config, pc, platforms, idx, result, crawlers, attempts,
                   created, cleanup_all_calls, other, disposed>>

\* r.to_dict()
SearchResultToDict ==
    /\ call.op = "SearchResult"
    /\ call' = [op |-> "SearchResult.to_dict", arg |-> call.arg,
                ret |-> SearchResult_to_dict(call.arg)]
    /\ UNCHANGED <<config, pc, platforms, idx, result, crawlers, attempts,
                   created, cleanup_all_calls, other, disposed>>

\* SearchResult.from_dict(r.to_dict())
SearchResultFromDict ==
    /\ call.op = "SearchResult.to_dict"
    /\ call' = [op |-> "SearchResult.from_dict", arg |-> call.arg,
                ret |-> SearchResult_from_dict(call.ret)]
    /\ UNCHANGED <<config, pc, platforms, idx, result, crawlers, attempts,
                   created, cleanup_all_calls, other, disposed>>

NextRoundTrip ==
    \/ ContentItemToDict
    \/ ContentItemFromDict
    \/ SearchResultToDict
    \/ SearchResultFromDict

SpecRoundTrip == InitRoundTrip /\ [][NextRoundTrip]_vars

----------------------------------------------------------------------------
(* Properties *)

Done == pc = "returned"

\* the platforms whose session class is in crawlers/ (bilibili.py, douyin.py,
\* xiaohongshu.py, zhihu.py, tieba.py)
InSource == {bilibili, douyin, xiaohongshu, zhihu, tieba}

\* every platform attempted in the run is one of InSource
RunInSource == \A i \in 1..Len(attempts) : attempts[i].platform \in InSource

\* what the session of attempt a handed back (or raised)
Outcome(a) == search_with_comments(a.platform, a.world)

\* attempt a's session threw while it was initialized or searched
Threw(a) == a.kind = "init_failed" \/ (a.kind \in {"returned", "raised"} /\ a.world.fails)

\* attempt a's session produced a non-empty item list
Produced(a) == a.kind = "returned" /\ Outcome(a).value # <<>>

\* no later attempt for the platform of attempt i overwrites what attempt i
\* recorded: none of the same kind (and, for a returned list, none that
\* produced items)
LastOfKind(i) ==
    \A j \in (i + 1)..Len(attempts) :
        ~(attempts[j].platform = attempts[i].platform /\ attempts[j].kind = attempts[i].kind
            /\ (attempts[i].kind = "returned" => Produced(attempts[j])))

\* C1: when search_all_platforms returns, status is "failed" iff results is
\* empty and errors is not, "partial" iff neither is empty, "success" otherwise
C1_StatusMatchesResultsAndErrors ==
    Done =>
        /\ (result.status = "failed") <=>
               (DOMAIN result.results = {} /\ DOMAIN result.errors # {})
        /\ (result.status = "partial") <=>
               (DOMAIN result.results # {} /\ DOMAIN result.errors # {})
        /\ (result.status = "success") <=> (DOMAIN result.errors = {})

C1_Witness ==
    /\ Done
    /\ result.status = "partial"
    /\ DOMAIN result.results # {}
    /\ DOMAIN result.errors # {}

\* C2, in the runs over the platforms of InSource: if exactly one platform's
\* session throws while it is initialized or searched, that platform is a key of
\* errors and not of results, every other platform that produced items is a key
\* of results with exactly its items, and the status is "partial" when some
\* platform produced items
C2_ThrowingPlatformIsRecorded ==
    (Done /\ RunInSource) =>
        \A i \in 1..Len(attempts) :
            (Threw(attempts[i]) /\ \A j \in 1..Len(attempts) : j # i => ~Threw(attempts[j])) =>
                /\ attempts[i].platform \in DOMAIN result.errors
                /\ attempts[i].platform \notin DOMAIN result.results
                /\ \A j \in 1..Len(attempts) :
                       (j # i /\ Produced(attempts[j])) =>
                           /\ attempts[j].platform \in DOMAIN result.results
                           /\ \E k \in 1..Len(attempts) :
                                  /\ attempts[k].platform = attempts[j].platform
                                  /\ result.results[attempts[j].platform] = Outcome(attempts[k]).value
                /\ (\E j \in 1..Len(attempts) : Produced(attempts[j])) => result.status = "partial"

\* C3, for the platforms of InSource: a platform whose initialize() reported
\* failure is a key of errors and not a key of results when search_all_platforms
\* returns
C3_InitFailureIsRecorded ==
    Done =>
        \A i \in 1..Len(attempts) :
            (attempts[i].kind = "init_failed" /\ attempts[i].platform \in InSource) =>
                /\ attempts[i].platform \in DOMAIN result.errors
                /\ (\A j \in 1..Len(attempts) :
                        attempts[j].platform = attempts[i].platform => attempts[j].kind = "init_failed")
                    => attempts[i].platform \notin DOMAIN result.results

\* C4, in the runs over the platforms of InSource: if every requested platform
\* fails (initialization or search), the returned result has status "failed" and
\* no results
C4_AllFailedIsFailed ==
    (Done /\ RunInSource /\ attempts # <<>> /\ \A i \in 1..Len(attempts) : Threw(attempts[i])) =>
        /\ result.status = "failed"
        /\ DOMAIN result.results = {}

\* C5: a name that normalizes to something outside the supported set gets no
\* session, is a key of errors when the run returns, and the run has processed
\* every platform of the list
C5_UnsupportedIsRecorded ==
    /\ \A p \in DOMAIN crawlers : p \in CRAWLERS
    /\ Done =>
        /\ Len(attempts) = Len(platforms)
        /\ \A i \in 1..Len(attempts) :
               attempts[i].kind = "unsupported" => attempts[i].platform \in DOMAIN result.errors

\* C6: no platform of the result has more than max_contents items
C6_AtMostMaxContents ==
    \A p \in DOMAIN result.results : Len(result.results[p]) <= config.limits.max_contents

C6_Witness ==
    /\ Done
    /\ \E i \in 1..Len(attempts) :
        /\ Len(attempts[i].world.hits) > config.limits.max_contents
        /\ attempts[i].platform \in DOMAIN result.results
        /\ Len(result.results[attempts[i].platform]) = config.limits.max_contents

\* the comment caps as C7 states them
CommentCap(p) ==
    IF p = zhihu THEN ZhihuComments ELSE IF p = tieba THEN TiebaComments ELSE DefaultCommentLimit

\* C7: no item of the result has more comments than the cap of its platform
\* (10, 20 for zhihu, 100 for tieba)
C7_AtMostCommentCap ==
    \A p \in DOMAIN result.results :
        \A i \in 1..Len(result.results[p]) :
            Len(result.results[p][i].comments) <= CommentCap(p)

C7_Witness ==
    /\ Done
    /\ \A p \in {bilibili, zhihu, tieba, weibo} :
        \/ p \notin DOMAIN result.results
        \/ \E i \in 1..Len(result.results[p]) :
              Len(result.results[p][i].comments) = CommentCap(p)
    /\ \E i \in 1..Len(attempts) :
        /\ attempts[i].platform = tieba
        /\ attempts[i].world.hits # <<>>
        /\ attempts[i].world.hits[1].ncomments > CommentCap(tieba)
        /\ tieba \in DOMAIN result.results
        /\ Len(result.results[tieba][1].comments) = CommentCap(tieba)

\* the raw hits the items were mapped from, in the items' order
HitsOf(items) == [i \in 1..Len(items) |-> items[i].hit]

\* the first n positions, in order
FirstHits(n) == [i \in 1..n |-> i]

\* a raw hit the platform's search skips: building its item raises, or it lacks
\* the identifier a search that requires one checks for
Skipped(p, h) == ~h.mappable \/ (p \in {douyin, xiaohongshu, tieba} /\ ~h.has_id)

\* C8 as stated, for the platforms of InSource: when the search returns more
\* raw hits than max_contents, exactly the first max_contents hits, in native
\* order, are the platform's items
C8_FirstHitsBecomeItems ==
    Done =>
        \A i \in 1..Len(attempts) :
            (attempts[i].kind = "returned" /\ ~attempts[i].world.fails
                /\ attempts[i].platform \in InSource
                /\ Len(attempts[i].world.hits) > config.limits.max_contents) =>
                /\ attempts[i].platform \in DOMAIN result.results
                /\ HitsOf(result.results[attempts[i].platform]) = FirstHits(config.limits.max_contents)

\* C8 amended: when the search returns more raw hits than max_contents and
\* none of the first max_contents hits is skipped, exactly the first
\* max_contents hits, in native order, are the platform's items (unless a later
\* search of the same platform in the run replaced them)
C8_FirstMappableHitsBecomeItems ==
    Done =>
        \A i \in 1..Len(attempts) :
            (attempts[i].kind = "returned" /\ ~attempts[i].world.fails
                /\ LastOfKind(i)
                /\ Len(attempts[i].world.hits) > config.limits.max_contents
                /\ \A k \in 1..config.limits.max_contents :
                       ~Skipped(attempts[i].platform, attempts[i].world.hits[k])) =>
                /\ attempts[i].platform \in DOMAIN result.results
                /\ HitsOf(result.results[attempts[i].platform]) = FirstHits(config.limits.max_contents)

C8_Witness ==
    /\ Done
    /\ \E i \in 1..Len(attempts) :
        /\ attempts[i].kind = "returned"
        /\ Len(attempts[i].world.hits) > config.limits.max_contents
        /\ \A k \in 1..config.limits.max_contents :
               ~Skipped(attempts[i].platform, attempts[i].world.hits[k])
        /\ \E k \in 1..Len(attempts[i].world.hits) : ~attempts[i].world.hits[k].mappable
        /\ HitsOf(result.results[attempts[i].platform]) = FirstHits(config.limits.max_contents)

\* C9: search_all_platforms never raises because of a platform that fails to
\* initialize, throws during its search or is unsupported
C9_NeverRaises == pc # "raised"

C9_Witness ==
    /\ Done
    /\ \E i, j \in 1..Len(attempts) :
        /\ attempts[i].kind = "raised"
        /\ attempts[j].kind \in {"init_failed", "unsupported"}

\* C10: cleanup and return come only after every platform of the list was
\* attempted, in order, whatever the earlier platforms did; and what the result
\* records for a platform is what that platform's own session did
C10_EveryPlatformAttempted ==
    /\ pc \in {"loop", "search"} => Len(attempts) = idx - 1
    /\ pc \in {"finalize", "returned"} =>
        /\ Len(attempts) = Len(platforms)
        /\ \A i \in 1..Len(attempts) :
            /\ attempts[i].platform = platforms[i]
            /\ (Produced(attempts[i]) /\ LastOfKind(i)) =>
                   /\ attempts[i].platform \in DOMAIN result.results
                   /\ result.results[attempts[i].platform] = Outcome(attempts[i]).value
            /\ (attempts[i].kind = "raised" /\ LastOfKind(i)) =>
                   /\ attempts[i].platform \in DOMAIN result.errors
                   /\ result.errors[attempts[i].platform] = Outcome(attempts[i]).value.message
        /\ \A p \in DOMAIN result.results :
               \E i \in 1..Len(attempts) : attempts[i].platform = p /\ Produced(attempts[i])
        /\ \A p \in DOMAIN result.errors :
               \E i \in 1..Len(attempts) : attempts[i].platform = p /\ attempts[i].kind = "raised"

C10_Witness ==
    /\ Done
    /\ Len(attempts) >= 2
    /\ attempts[1].kind = "raised"
    /\ Produced(attempts[2])
    /\ attempts[2].platform \in DOMAIN result.results

\* the run has left search_all_platforms, by return or by an exception
Exited == pc \in {"returned", "raised"}

\* C11, in the runs over the platforms of InSource: cleanup_all has not run
\* while platforms are being processed, and it has run exactly once when
\* search_all_platforms is left, whether by return or by an exception raised
\* out of the loop
C11_CleanupAllExactlyOnce ==
    RunInSource =>
        /\ pc \in {"loop", "search"} => cleanup_all_calls = 0
        /\ Exited => cleanup_all_calls = 1

\* C14, in the runs over the platforms of InSource: when a cancelled run has
\* unwound to its caller, cleanup() has run on every session the run
\* initialized: no session is left initialized, holding its browser
C14_CancelledRunCleansUp ==
    (pc = "raised" /\ RunInSource) =>
        \A p \in DOMAIN crawlers :
            ~crawlers[p].is_initialized /\ crawlers[p].held = 0

\* the session was never opened: no initialize() has set its browser fields
NeverOpened(c) == ~c.cdp_manager /\ ~c.browser_context

\* C12: a cleanup() on a cached session that is already closed or was never
\* opened asks for no release of the browser: the session's release count and
\* the browsers it holds stay as they were
C12_ClosedCleanupIsNoop ==
    [][\A p \in DOMAIN crawlers :
          (/\ call'.op = "cleanup" /\ call'.arg = p
           /\ p \in DOMAIN crawlers'
           /\ crawlers[p].closed \/ NeverOpened(crawlers[p])) =>
              /\ crawlers'[p].releases = crawlers[p].releases
              /\ crawlers'[p].held = crawlers[p].held]_vars

\* the cache holds sessions under canonical names of CRAWLERS only, one object
\* per name
OneSessionPerPlatform ==
    /\ \A k \in DOMAIN crawlers : k \in CRAWLERS /\ normalize_platform(k) = k
    /\ \A k1, k2 \in DOMAIN crawlers :
           k1 # k2 => crawlers[k1].instance # crawlers[k2].instance

\* C13: the cache never holds more than one session per canonical platform, and
\* a get_crawler call for a name (canonical or alias) whose platform has a
\* cached session returns that very session and constructs none
C13_SameSessionUntilDisposed ==
    /\ []OneSessionPerPlatform
    /\ [][call'.op = "get_crawler" =>
            LET k == normalize_platform(call'.arg)
            IN  k \in DOMAIN crawlers =>
                    /\ call'.ret = <<crawlers[k].instance>>
                    /\ crawlers' = crawlers
                    /\ created' = created]_vars

C13_Witness ==
    /\ call.op = "get_crawler"
    /\ call.arg = <<" ","B","i","l","i"," ">>
    /\ bilibili \in DOMAIN crawlers
    /\ crawlers[bilibili].is_initialized
    /\ call.ret = <<crawlers[bilibili].instance>>
    /\ tieba \in DOMAIN crawlers

\* the session of platform p is cached and initialized
Live(p) == p \in DOMAIN crawlers /\ crawlers[p].is_initialized

\* C15, for the platforms of InSource: two overlapping runs never search with
\* the same session, and the session a run is searching with has not been
\* cleaned up by the other run
C15_RunsDoNotShareSessions ==
    /\ (pc = "search" /\ other.pc = "search" /\ platform \in InSource) =>
           platform # other_platform
    /\ (pc = "search" /\ platform \in InSource) => Live(platform)
    /\ (other.pc = "search" /\ other_platform \in InSource) => Live(other_platform)

\* C16, for the platforms of InSource: no platform is a key of both results and
\* errors, and an entry of results or errors, once added, stays as it is for
\* the rest of the run, also when the list names a platform more than once
C16_AppendOnlyAndDisjoint ==
    /\ [](\A p \in InSource : ~(p \in DOMAIN result.results /\ p \in DOMAIN result.errors))
    /\ [][\A p \in InSource :
            /\ p \in DOMAIN result.results =>
                   (p \in DOMAIN result'.results /\ result'.results[p] = result.results[p])
            /\ p \in DOMAIN result.errors =>
                   (p \in DOMAIN result'.errors /\ result'.errors[p] = result.errors[p])]_vars

\* attempt a's search completed with zero items
CameBackEmpty(a) == a.kind = "returned" /\ Outcome(a).value = <<>>

\* C17: no key of results maps to an empty list, and a platform whose search
\* completed with zero items (and that no other entry of the list produced
\* items or an error for) is a key neither of results nor of errors
C17_NoEmptyResults ==
    /\ \A p \in DOMAIN result.results : result.results[p] # <<>>
    /\ Done =>
        \A i \in 1..Len(attempts) :
            (/\ CameBackEmpty(attempts[i])
             /\ \A j \in 1..Len(attempts) :
                    attempts[j].platform = attempts[i].platform =>
                        ~Produced(attempts[j]) /\ attempts[j].kind # "raised") =>
                /\ attempts[i].platform \notin DOMAIN result.results
                /\ attempts[i].platform \notin DOMAIN result.errors

C17_Witness ==
    /\ Done
    /\ Len(attempts) = 2
    /\ attempts[1].kind = "returned"
    /\ ~attempts[1].world.fails
    /\ attempts[1].world.hits = <<>>
    /\ attempts[1].platform \notin DOMAIN result.results
    /\ attempts[1].platform \notin DOMAIN result.errors
    /\ Produced(attempts[2])
    /\ DOMAIN result.results = {attempts[2].platform}

\* C18: normalize_platform applied to its own result returns that result
C18_NormalizeIdempotent ==
    call.op = "normalize_platform_again" => call.ret = normalize_platform(call.arg)

C18_Witness ==
    /\ call.op = "normalize_platform_again"
    /\ call.arg = <<" ","W","b","\t">>
    /\ call.ret = weibo

\* C19: every spelling of an alias (any letter case, any surrounding
\* whitespace) normalizes to what the canonical name of the alias normalizes
\* to, which is that canonical name
C19_AliasesResolve ==
    call.op = "normalize_platform" =>
        \A a \in DOMAIN platform_aliases :
            call.arg \in Spellings(a) =>
                /\ call.ret = normalize_platform(platform_aliases[a])
                /\ call.ret = platform_aliases[a]

C19_Witness ==
    /\ call.op = "normalize_platform"
    /\ call.arg = <<"\n","x","H","s"," ">>
    /\ call.ret = xiaohongshu

\* C20: from_dict of to_dict gives the object back, for a ContentItem with its
\* nested comments and its extra bag, and for a SearchResult
C20_RoundTrip ==
    call.op \in {"ContentItem.from_dict", "SearchResult.from_dict"} => call.ret = call.arg

C20_Witness ==
    /\ call.op = "SearchResult.from_dict"
    /\ DOMAIN call.arg.results = {bilibili, zhihu}
    /\ Len(call.arg.results[bilibili]) = MaxNested
    /\ call.arg.results[bilibili][1].comments # <<>>
    /\ DOMAIN call.arg.results[bilibili][1].extra = {"content_id"}
    /\ DOMAIN call.arg.errors = {weibo}
    /\ call.arg.status = "partial"
    /\ call.ret = call.arg

\* C21: whenever search_with_comments is running on a session, that session is
\* the cached one of the platform and its initialize() returned success: it is
\* initialized
C21_OnlyInitializedIsSearched ==
    pc = "search" => (platform \in DOMAIN crawlers /\ crawlers[platform].is_initialized)

C21_Witness ==
    /\ pc = "search"
    /\ Len(attempts) = 1
    /\ attempts[1].kind = "init_failed"
    /\ attempts[1].platform = tieba
    /\ platform = bilibili
    /\ Live(bilibili)
    /\ tieba \in DOMAIN crawlers
    /\ ~crawlers[tieba].is_initialized

\* C22, for the platforms of InSource: a cached session whose initialize()
\* failed earlier in the run is not initialized by any later initialize() of
\* the run (sessions leave the cache only in cleanup_all, so the cached session
\* of the platform is the instance that failed)
C22_FailedIsAbsorbing ==
    \A i \in 1..Len(attempts) :
        (/\ attempts[i].kind = "init_failed"
         /\ attempts[i].platform \in InSource
         /\ attempts[i].platform \in DOMAIN crawlers) =>
            ~crawlers[attempts[i].platform].is_initialized

\* C23, in the runs over the platforms of InSource: when search_all_platforms
\* has returned, no session is left cached, and no session of the run still
\* holds a browser its initialize() launched (leaving aside the sessions one of
\* whose releases raised)
C23_BrowsersReleased ==
    (Done /\ RunInSource) =>
        /\ crawlers = EmptyMap
        /\ \A d \in disposed : ~d.release_raised => d.held = 0

NextInOrder == normalize_platform(platforms[Len(attempts) + 1])

\* a step of the for-loop records at most one attempt, that of the platform
\* whose turn it is, and changes no session but that platform's
OneAtATime ==
    (pc \in {"loop", "search"} /\ pc' \in {"loop", "search"}) =>
        /\ \/ attempts' = attempts
           \/ /\ Len(attempts) < Len(platforms)
              /\ Len(attempts') = Len(attempts) + 1
              /\ SubSeq(attempts', 1, Len(attempts)) = attempts
              /\ attempts'[Len(attempts')].platform = NextInOrder
        /\ \A p \in DOMAIN crawlers' :
               (p \notin DOMAIN crawlers \/ crawlers'[p] # crawlers[p]) =>
                   (Len(attempts) < Len(platforms) /\ p = NextInOrder)

\* C24: the platforms are attempted one at a time in the order of the list
\* (the requested one, or supported_platforms when none is given): a step of
\* the loop touches only the session of the first platform not finished yet
\* and records only that platform's attempt, the search in progress is that
\* platform's, and cleanup_all comes after the last one
C24_StrictlySequential ==
    /\ [](/\ pc = "search" => (idx = Len(attempts) + 1 /\ idx <= Len(platforms))
          /\ pc \in {"finalize", "returned"} =>
                 /\ Len(attempts) = Len(platforms)
                 /\ \A i \in 1..Len(attempts) :
                        attempts[i].platform = normalize_platform(platforms[i]))
    /\ [][OneAtATime]_vars

C24_Witness ==
    /\ Done
    /\ Len(platforms) = Len(supported_platforms)
    /\ \A i \in 1..Len(attempts) : attempts[i].platform = supported_platforms[i]
    /\ attempts[1].kind = "init_failed"
    /\ attempts[2].kind = "returned"
    /\ attempts[4].kind = "raised"
    /\ DOMAIN result.results = {douyin, kuaishou}

\* a crawl_interval sleep follows every externally-bound call but the last
Paced(calls) ==
    \A k \in 1..(Len(calls) - 1) : calls[k] # "sleep" => calls[k + 1] = "sleep"

\* C25, for the platforms of InSource: in the calls a session made for one
\* search_with_comments, a crawl_interval sleep lies between any two
\* consecutive externally-bound calls, failed ones included
C25_DelayBetweenCalls ==
    \A i \in 1..Len(attempts) :
        (attempts[i].kind \in {"returned", "raised"} /\ attempts[i].platform \in InSource) =>
            Paced(search_with_comments_calls(attempts[i].platform, attempts[i].world))

\* C26: when the platform's search returned items, search_with_comments
\* returns them all in the same order; an item whose comment fetch failed has
\* no comments, and every other item that has an identifier has the comments
\* its own fetch returned, cut to the platform's cap
C26_CommentFailureIsIsolated ==
    Done =>
        \A i \in 1..Len(attempts) :
            LET a == attempts[i]
                found == search(a.platform, a.world)
            IN  (a.kind \in {"returned", "raised"} /\ ~found.raised /\ found.value # <<>>) =>
                    /\ a.kind = "returned"
                    /\ a.platform \in DOMAIN result.results
                    /\ LET items == result.results[a.platform]
                       IN  /\ HitsOf(items) = HitsOf(Take(found.value, max_contents))
                           /\ \A k \in 1..Len(items) :
                                  LET h == a.world.hits[items[k].hit]
                                  IN  /\ h.comments_fail => items[k].comments = <<>>
                                      /\ (~h.comments_fail /\ items[k].content_id # 0) =>
                                             items[k].comments =
                                                 Take(RawComments(h), max_comments(a.platform))

C26_Witness ==
    /\ Done
    /\ Len(attempts) = 1
    /\ attempts[1].platform = weibo
    /\ attempts[1].kind = "returned"
    /\ Len(attempts[1].world.hits) = 3
    /\ attempts[1].world.hits[2].comments_fail
    /\ get_comments(weibo, attempts[1].world.hits[2]).raised
    /\ weibo \in DOMAIN result.results
    /\ Len(result.results[weibo]) = 3
    /\ Len(result.results[weibo][1].comments) = WeiboComments
    /\ result.results[weibo][2].comments = <<>>
    /\ Len(result.results[weibo][3].comments) = WeiboComments

\* C27, for the platforms of InSource, in a run over one platform: when the
\* client's keyword search raised, the platform is a key of errors; when it
\* returned zero hits, the platform is a key neither of results nor of errors
C27_SearchFailureIsNotEmpty ==
    (Done /\ Len(attempts) = 1 /\ attempts[1].platform \in InSource
          /\ attempts[1].kind \in {"returned", "raised"}) =>
        /\ attempts[1].world.fails => attempts[1].platform \in DOMAIN result.errors
        /\ (~attempts[1].world.fails /\ attempts[1].world.hits = <<>>) =>
               /\ attempts[1].platform \notin DOMAIN result.results
               /\ attempts[1].platform \notin DOMAIN result.errors

\* the positions of the hits of a list that the search of p does not skip, in
\* native order
RECURSIVE Kept(_, _)
Kept(p, hits) ==
    IF hits = <<>> THEN <<>>
    ELSE (IF Skipped(p, Head(hits)) THEN <<>> ELSE <<Head(hits).id>>) \o Kept(p, Tail(hits))

Slept(a) ==
    LET calls == search_with_comments_calls(a.platform, a.world)
    IN  \E k \in 1..Len(calls) : calls[k] = "sleep"

\* C29, for the platforms of InSource, in a run that started under the default
\* configuration: the sleeps of the run waited the crawl interval of the start,
\* and a search that found more hits than the content cap of the start, each
\* with more comments than every cap, has put exactly that many items in the
\* result, each with as many comments as the platform's cap of the start
C29_LimitsOfTheStart ==
    \A i \in 1..Len(attempts) :
        LET a == attempts[i]
        IN  (a.kind = "returned" /\ a.platform \in InSource) =>
                /\ Slept(a) => a.crawl_interval = CrawlInterval
                /\ (Done /\ ~a.world.fails /\ Len(a.world.hits) > DefaultMaxContents) =>
                       /\ a.platform \in DOMAIN result.results
                       /\ Len(result.results[a.platform]) = DefaultMaxContents
                       /\ \A k \in 1..Len(result.results[a.platform]) :
                              Len(result.results[a.platform][k].comments) = CommentCap(a.platform)

\* C31: an iteration that finds the platform's session initialized gets success
\* from initialize() and goes on to the search, and the call leaves the session
\* as it was: no browser launched, no client constructed, no login checked
C31_InitializedIsLeftAlone ==
    [][(/\ pc = "loop" /\ idx <= Len(platforms)
        /\ platform \in DOMAIN crawlers
        /\ crawlers[platform].is_initialized) =>
           /\ pc' = "search"
           /\ crawlers'[platform].held = crawlers[platform].held
           /\ crawlers'[platform].clients = crawlers[platform].clients
           /\ crawlers'[platform].login_checks = crawlers[platform].login_checks
           /\ crawlers' = crawlers]_vars

C31_Witness ==
    /\ pc = "search"
    /\ idx = 2
    /\ platforms = <<tieba, tieba>>
    /\ attempts[1].kind = "returned"
    /\ crawlers[tieba].is_initialized
    /\ crawlers[tieba].held = 1
    /\ crawlers[tieba].clients = 1
    /\ crawlers[tieba].login_checks = 1

\* a run of search_all_platforms has started and not ended
Running == pc \in {"loop", "search", "finalize"}

\* C32: when every call the run awaits returns or raises, a run that has
\* started returns, whatever the platform list and the raw hits and comments,
\* and the contents a finished search_with_comments handed over are those of
\* the function applied to the client's answer
C32_Terminates ==
    /\ Running ~> Done
    /\ [](\A i \in 1..Len(attempts) :
             (attempts[i].kind = "returned" /\ Produced(attempts[i])
                  /\ LastOfKind(i)) =>
                 /\ attempts[i].platform \in DOMAIN result.results
                 /\ result.results[attempts[i].platform] = Outcome(attempts[i]).value)

C32_Witness ==
    /\ Done
    /\ Len(attempts) = 1
    /\ attempts[1].platform = xiaohongshu
    /\ attempts[1].kind = "returned"
    /\ Len(attempts[1].world.hits) = MaxHits
    /\ ~attempts[1].world.hits[2].has_id
    /\ Len(result.results[xiaohongshu]) = DefaultMaxContents
    /\ Len(result.results[xiaohongshu][1].comments) = XiaohongshuComments

\* C33: update_config sets the keys of the keyword arguments that are fields
\* of the config to the values given and leaves every other field as it was;
\* keyword arguments without any field of the config leave the config as it was
C33_UpdateChangesSuppliedFieldsOnly ==
    call.op = "update_config" =>
        /\ config = [key \in DOMAIN DefaultConfig |->
                        IF key \in DOMAIN call.arg THEN call.arg[key] ELSE DefaultConfig[key]]
        /\ (DOMAIN call.arg \cap DOMAIN DefaultConfig = {}) => config = DefaultConfig

\* the number of comment fetches among the calls of a session
CommentFetches(calls) == Cardinality({k \in 1..Len(calls) : calls[k] = "comments"})

\* C34: an item without content_id (missing or empty) has no comment fetch
\* issued for it and keeps its empty comment list; it stays in the returned
\* list at its place, no error is recorded, and the items around it that have
\* a content_id get their comments
C34_NoIdIsNotAnError ==
    Done =>
        \A i \in 1..Len(attempts) :
            LET a == attempts[i]
                found == search(a.platform, a.world)
            IN  (/\ a.kind \in {"returned", "raised"}
                 /\ ~found.raised
                 /\ \E k \in 1..Len(found.value) : found.value[k].content_id = 0) =>
                    /\ a.kind = "returned"
                    /\ a.platform \notin DOMAIN result.errors
                    /\ a.platform \in DOMAIN result.results
                    /\ LET items == result.results[a.platform]
                       IN  /\ HitsOf(items) = HitsOf(Take(found.value, max_contents))
                           /\ CommentFetches(search_with_comments_calls(a.platform, a.world))
                                  = Cardinality({k \in 1..Len(items) : items[k].content_id # 0})
                           /\ \A k \in 1..Len(items) :
                                  LET h == a.world.hits[items[k].hit]
                                  IN  /\ items[k].content_id = 0 => items[k].comments = <<>>
                                      /\ (items[k].content_id # 0 /\ ~h.comments_fail) =>
                                             items[k].comments =
                                                 Take(RawComments(h), max_comments(a.platform))

C34_Witness ==
    /\ Done
    /\ Len(attempts) = 1
    /\ attempts[1].platform = zhihu
    /\ attempts[1].kind = "returned"
    /\ Len(attempts[1].world.hits) = 3
    /\ ~attempts[1].world.hits[2].has_id
    /\ result.errors = EmptyMap
    /\ Len(result.results[zhihu]) = 3
    /\ Len(result.results[zhihu][1].comments) = ZhihuComments
    /\ result.results[zhihu][2].content_id = 0
    /\ result.results[zhihu][2].comments = <<>>
    /\ Len(result.results[zhihu][3].comments) = ZhihuComments

\* C35: format_count returns a non-negative integer for every input: the
\* integer itself for an integer, and 0 for None and for an empty or blank
\* string; it never raises.
C35_FormatCountIsNonNegative ==
    call.op = "format_count" =>
        /\ ~call.ret.raised
        /\ call.ret.value \in Nat
        /\ call.arg.type = "int" => call.ret.value = call.arg.int
        /\ call.arg.type = "NoneType" => call.ret.value = 0
        /\ (call.arg.type = "str" /\ Strip(call.arg.str) = <<>>) => call.ret.value = 0

\* format_count(-1) has returned -1
C35_NegativeInteger ==
    /\ call.op = "format_count"
    /\ call.arg = IntValue(-1)
    /\ call.ret = Returned(-1)

\* format_count("inf") has raised OverflowError
C35_InfinityRaises ==
    /\ call.op = "format_count"
    /\ call.arg = StrValue(<<"i","n","f">>)
    /\ call.ret.raised
    /\ call.ret.value.class = "OverflowError"

\* format_count("-5") has returned -5
C35_NegativeString ==
    /\ call.op = "format_count"
    /\ call.arg = StrValue(<<"-","5">>)
    /\ call.ret = Returned(-5)

\* what format_count returns on the strings that write a count
C35_PlainCounts ==
    /\ format_count(StrValue(<<"1",".","2",WAN>>)) = Returned(12000)
    /\ format_count(StrValue(<<" ","1",".","2","W">>)) = Returned(12000)
    /\ format_count(StrValue(<<"1",",","2","3","4">>)) = Returned(1234)
    /\ format_count(StrValue(<<"3",".",YI>>)) = Returned(300000000)
    /\ format_count(StrValue(<<"1",WAN,YI>>)) = Returned(0)
    /\ format_count(StrValue(<<"a","b","c">>)) = Returned(0)
    /\ format_count(StrValue(<<"n","a","n">>)) = Returned(0)
    /\ format_count(Finite(TRUE, 25, 10)) = Returned(-2)
    /\ format_count(NaN).raised

\* C36: at every moment a session holds at most one browser that an
\* initialize() launched and no cleanup() released: initialize() launches none
\* while the session still holds one.
C36_AtMostOneBrowserHeld ==
    /\ \A p \in DOMAIN crawlers : crawlers[p].held <= 1
    /\ \A d \in disposed : d.held <= 1

\* a session whose initialize() failed at the login has been initialized again
\* and holds two browsers
C36_RetryLaunchesAgain ==
    /\ Len(attempts) = 2
    /\ attempts[1].kind = "init_failed"
    /\ attempts[1].platform = attempts[2].platform
    /\ attempts[1].platform \in DOMAIN crawlers
    /\ crawlers[attempts[1].platform].held = 2

\* the canonical platforms among the requested ones
RequestedCanonical == {platforms[i] : i \in 1..Len(platforms)} \cap CRAWLERS

\* C37: no cleanup() runs before the last requested platform has been
\* processed: until then every session the run initialized is cached, is
\* initialized and holds its browser, no release has been asked for, and there
\* is at most one session per requested canonical platform.
C37_BrowsersHeldUntilEndOfRun ==
    /\ Cardinality(DOMAIN crawlers) <= Cardinality(RequestedCanonical)
    /\ (disposed # {} \/ cleanup_all_calls > 0) =>
            /\ pc \in {"finalize", "returned"}
            /\ Len(attempts) = Len(platforms)
    /\ pc = "loop" =>
            \A i \in 1..Len(attempts) :
                attempts[i].kind \in {"returned", "raised"} =>
                    /\ attempts[i].platform \in DOMAIN crawlers
                    /\ LET c == crawlers[attempts[i].platform]
                       IN  /\ c.is_initialized
                           /\ c.held >= 1
                           /\ c.releases = 0
                           /\ ~c.closed

\* both platforms have been searched and both sessions hold their browsers
\* when the loop is over
C37_Witness ==
    /\ pc = "loop"
    /\ platforms = <<tieba, bilibili>>
    /\ idx = 3
    /\ attempts[1].kind = "returned"
    /\ attempts[2].kind = "returned"
    /\ crawlers[tieba].held = 1
    /\ crawlers[bilibili].held = 1
    /\ crawlers[tieba].is_initialized
    /\ crawlers[bilibili].is_initialized

\* C38: in every returned SearchResult each key of results is a canonical
\* name of CRAWLERS, never an alias or a name as it was typed, and every item
\* under results[p] carries platform p.
C38_ResultKeysAreCanonical ==
    Done =>
        \A p \in DOMAIN result.results :
            /\ p \in CRAWLERS
            /\ \A k \in 1..Len(result.results[p]) : result.results[p][k].platform = p

\* a run whose list named weibo by its alias "wb" has returned items under
\* bilibili and weibo
C38_Witness ==
    /\ Done
    /\ Len(attempts) = 2
    /\ attempts[1].platform = bilibili
    /\ attempts[2].platform = weibo
    /\ DOMAIN result.results = {bilibili, weibo}
    /\ result.results[bilibili] # <<>>
    /\ result.results[weibo] # <<>>

\* C39: a cleanup() call returns to its caller without an exception and
\* leaves the session not initialized, whether the release of the browser
\* returns or raises.
C39_CleanupNeverRaises ==
    [][call'.op = "cleanup" =>
          /\ ~call'.ret.raised
          /\ ~crawlers'[call'.arg].is_initialized
          /\ crawlers'[call'.arg].closed]_vars

\* cleanup() has returned on an initialized session whose release raised: the
\* browser is still held and the session is not initialized
C39_Witness ==
    /\ call.op = "cleanup"
    /\ call.arg = bilibili
    /\ call.ret = Returned(<<>>)
    /\ crawlers[bilibili].login_checks = 1
    /\ crawlers[bilibili].releases = 1
    /\ crawlers[bilibili].release_raised
    /\ crawlers[bilibili].held = 1
    /\ ~crawlers[bilibili].is_initialized

====
